---- MODULE Spec2Model ----
(***************************************************************************)
(* Model of backend/nlp.js: the utterance-to-directive compiler of CCRobot *)
(* (Urdu lexicon normalizer, clause segmenter, quantity extractor, clause  *)
(* classifier with its process-wide context, legacy lowering adapter).     *)
(*                                                                         *)
(* Strings.  A JavaScript string is modelled as a sequence of atoms.  An   *)
(* atom is a maximal piece of text that the regular expressions of the     *)
(* source treat as a unit:                                                 *)
(*   - an ASCII word or digit run ("move", "45"): made of \w characters;   *)
(*   - one space " ", one punctuation character ("%", ",", ";", ".", ":"); *)
(*   - one Urdu word, written here in ASCII with the prefix ur_ (the       *)
(*     module is ASCII only): it is made of non-\w characters, because     *)
(*     the source's regular expressions carry no unicode flag and \w is    *)
(*     [A-Za-z0-9_].                                                       *)
(* Two adjacent word atoms stand for their concatenation ("2","m" is the   *)
(* text 2m): \b holds between two atoms exactly when one of them is made   *)
(* of \w characters and the other is not.  All atoms are lower case (the   *)
(* source matches case-insensitively throughout).                          *)
(*                                                                         *)
(* Numbers.  A JavaScript number is held in thousandths (Milli): 1.5 is    *)
(* 1500.  Numerals in the inputs carry at most one fractional digit, so    *)
(* that the division by 100 of line 174 is exact in thousandths.           *)
(***************************************************************************)
EXTENDS Integers, Sequences, FiniteSets, TLC

VARIABLES
  context,     \* the process-wide Context Memory (nlp.js:13-18)
  ctxBefore,   \* the Context Memory when the last call started
  utterance,   \* the argument of the last call
  call,        \* which function the last call was
  normalized,  \* urduToEnglish's result in the last call
  quantity,    \* extractQuantity's result in the last call
  steps,       \* parseCommandStructured's loop: one record per clause
  commands,    \* the descriptor list the last call returned
  flat,        \* parseCommandLegacy's return value
  botId,       \* the bot of the last request to the server
  received,    \* how many requests the server has received
  now,         \* the clock of the server's timers, in ms
  requests,    \* the /commands requests received, each with its progress
  published,   \* the messages handed to mqtt.publish on the command
               \* topics, in order
  isolated,    \* history: what each bot's requests give on a context of
               \* its own
  bots         \* the registry: the Map from bot id to bot (part_001)

serverVars == <<botId, received, now, requests, published, isolated, bots>>

vars == <<context, ctxBefore, utterance, call, normalized, quantity, steps,
          commands, flat, botId, received, now, requests, published,
          isolated, bots>>

----------------------------------------------------------------------------
(* Bounds of the model                                                     *)

\* the longest text given to the normalizer, in atoms
MaxNormLen == 5
\* the longest clause given to the quantity extractor, in atoms
MaxQtyLen == 5
\* the most phrases of one generated utterance
MaxPhrases == 2
\* the heading a session may accumulate, in degrees either way
MaxHeading == 180

----------------------------------------------------------------------------
(* Text: atoms, word characters, \b                                        *)

Sp == " "
Null == "null"

UrduAtoms ==
  { "ur_aage", "ur_saamne", "ur_barh", "ur_jao", "ur_peeche", "ur_ulta",
    "ur_reverse", "ur_wapas", "ur_daen", "ur_baen", "ur_tez", "ur_sharp",
    "ur_zara", "ur_thora", "ur_ruko", "ur_rok", "ur_thehro", "ur_meter",
    "ur_senti", "ur_second", "ur_minute", "ur_degree", "ur_feesad",
    "ur_camera", "ur_tasveer", "ur_video", "ur_zoom", "ur_tilt", "ur_pan",
    "ur_roshni", "ur_siren", "ur_chhirkao", "ur_bijli", "ur_aur", "ur_phir",
    "ur_se", "ur_ab",
    "ur_sifr", "ur_aik", "ur_do", "ur_teen", "ur_chaar", "ur_paanch",
    "ur_chhe", "ur_saat", "ur_aath", "ur_nau", "ur_das", "ur_pandrah",
    "ur_bees", "ur_tees", "ur_chalees", "ur_pachaas", "ur_saath",
    "ur_nawway", "ur_sau",
    "ur_barho", "ur_murro", "ur_sa", "ur_karo" }

NonWordAtoms == {Sp, "%", ",", ";", ".", ":", "-"} \cup UrduAtoms

\* The atom is made of \w characters ([A-Za-z0-9_]).
IsWordAtom(a) == a \notin NonWordAtoms

\* The character just left of offset i+1 (atom i) is a \w character.
WordCharAt(s, i) == i \in 1..Len(s) /\ IsWordAtom(s[i])

\* \b at offset i of s, i.e. between atom i and atom i+1 (i in 0..Len(s)).
Boundary(s, i) == WordCharAt(s, i) # WordCharAt(s, i + 1)

\* The literal p matches s at offset i.
LitAt(s, i, p) ==
  /\ i + Len(p) <= Len(s)
  /\ \A k \in 1..Len(p) : s[i + k] = p[k]

\* \bp\b matches s at offset i.
WordLitAt(s, i, p) ==
  LitAt(s, i, p) /\ Boundary(s, i) /\ Boundary(s, i + Len(p))

\* /\bp1\b|\bp2\b|.../i.test(s) for the set of literals ps.
Test(s, ps) == \E i \in 0..Len(s) : \E p \in ps : WordLitAt(s, i, p)

\* const x = v; F(x): v is evaluated once, before F is.
Bind(v, F(_)) == CHOOSE y \in { F(x) : x \in {v} } : TRUE

\* The least element of a non-empty set of integers.
Min(S) == CHOOSE x \in S : \A y \in S : x <= y

\* Texts of at most n atoms over the alphabet A.
TextsUpTo(A, n) == UNION { [1..k -> A] : k \in 0..n }

----------------------------------------------------------------------------
(* Urdu lexicon and normalizer (nlp.js:21-63)                              *)

\* One entry per line 23-55, in order: re's alternatives in order, and en.
urduLex ==
  << [re |-> << <<"ur_aage">>, <<"ur_saamne">>, <<"ur_aage", Sp, "ur_barh">>,
               <<"ur_aage", Sp, "ur_jao">> >>,            en |-> <<"forward">>],
     [re |-> << <<"ur_peeche">>, <<"ur_ulta">>, <<"ur_reverse">>,
               <<"ur_wapas">> >>,                          en |-> <<"backward">>],
     [re |-> << <<"ur_daen">> >>,                          en |-> <<"right">>],
     [re |-> << <<"ur_baen">> >>,                          en |-> <<"left">>],
     [re |-> << <<"ur_tez">>, <<"ur_sharp">> >>,           en |-> <<"sharp">>],
     [re |-> << <<"ur_zara">>, <<"ur_thora">> >>,          en |-> <<"little">>],
     [re |-> << <<"ur_ruko">>, <<"ur_rok">>, <<"ur_thehro">> >>,
                                                           en |-> <<"stop">>],
     [re |-> << <<"ur_meter">> >>,                         en |-> <<"m">>],
     [re |-> << <<"ur_senti", Sp, "ur_meter">> >>,         en |-> <<"cm">>],
     [re |-> << <<"ur_second">> >>,                        en |-> <<"s">>],
     [re |-> << <<"ur_minute">> >>,                        en |-> <<"min">>],
     [re |-> << <<"ur_degree">> >>,                        en |-> <<"deg">>],
     [re |-> << <<"ur_feesad">> >>,                        en |-> <<"%">>],
     [re |-> << <<"ur_camera">>, <<"ur_tasveer">>, <<"ur_video">> >>,
                                                           en |-> <<"camera">>],
     [re |-> << <<"ur_zoom">> >>,                          en |-> <<"zoom">>],
     [re |-> << <<"ur_tilt">> >>,                          en |-> <<"tilt">>],
     [re |-> << <<"ur_pan">> >>,                           en |-> <<"pan">>],
     [re |-> << <<"ur_roshni">> >>,                        en |-> <<"lights">>],
     [re |-> << <<"ur_siren">> >>,                         en |-> <<"siren">>],
     [re |-> << <<"ur_chhirkao">> >>,                      en |-> <<"spray">>],
     [re |-> << <<"ur_bijli">> >>,                         en |-> <<"taser">>],
     [re |-> << <<"ur_aur">>, <<"ur_phir">>, <<"ur_phir", Sp, "ur_se">> >>,
                                                           en |-> <<"and">>],
     [re |-> << <<"ur_ab">> >>,                            en |-> <<"now">>] >>

\* The first alternative of re (in the order written) that matches s at
\* offset i with \b on both sides; 0 when none does.
AltAt(s, i, re) ==
  LET hits == { k \in 1..Len(re) : WordLitAt(s, i, re[k]) }
  IN  IF hits = {} THEN 0 ELSE Min(hits)

RECURSIVE ReplaceFrom(_, _, _, _, _)
\* s.replace(re, en) from offset i on; all matches when global, else the
\* first one only.  Matching is against s itself, never against the output.
ReplaceFrom(s, i, re, en, global) ==
  IF i >= Len(s) THEN <<>>
  ELSE Bind(AltAt(s, i, re), LAMBDA k :
         IF k = 0
           THEN <<s[i + 1]>> \o ReplaceFrom(s, i + 1, re, en, global)
         ELSE IF global
           THEN en \o ReplaceFrom(s, i + Len(re[k]), re, en, global)
         ELSE en \o SubSeq(s, i + Len(re[k]) + 1, Len(s)))

\* A replace without the g flag: only the first match is substituted.
ReplaceFirst(s, re, en) ==
  IF \A i \in 0..(Len(s) - 1) : AltAt(s, i, re) = 0 THEN s
  ELSE ReplaceFrom(s, 0, re, en, FALSE)

\* The offsets of s at which re matches.
MatchOffsets(s, re) == { i \in 0..(Len(s) - 1) : AltAt(s, i, re) # 0 }

\* s.replace(re, en), re carrying the g flag (line 61); s itself when re
\* matches nowhere.
ReplaceAll(s, re, en) ==
  IF MatchOffsets(s, re) = {} THEN s ELSE ReplaceFrom(s, 0, re, en, TRUE)

RECURSIVE ApplyLex(_, _)
\* for (const {re, en} of urduLex) s = s.replace(re, en), entries k.. on
ApplyLex(s, k) ==
  IF k > Len(urduLex) THEN s
  ELSE Bind(ReplaceAll(s, urduLex[k].re, urduLex[k].en),
            LAMBDA t : ApplyLex(t, k + 1))

urduToEnglish(text) == ApplyLex(text, 1)

----------------------------------------------------------------------------
(* Numbers (nlp.js:66-78)                                                  *)

MsPerSec == 1000

\* The JavaScript number n (an integer), in thousandths.
Milli(n) == n * MsPerSec

EN_NUM_WORDS ==
  [zero |-> 0, one |-> 1, two |-> 2, three |-> 3, four |-> 4, five |-> 5,
   six |-> 6, seven |-> 7, eight |-> 8, nine |-> 9, ten |-> 10,
   eleven |-> 11, twelve |-> 12, thirteen |-> 13, fifteen |-> 15,
   twenty |-> 20, thirty |-> 30, forty |-> 40, fifty |-> 50, sixty |-> 60,
   ninety |-> 90, hundred |-> 100]

UR_NUM_WORDS ==
  [ur_sifr |-> 0, ur_aik |-> 1, ur_do |-> 2, ur_teen |-> 3, ur_chaar |-> 4,
   ur_paanch |-> 5, ur_chhe |-> 6, ur_saat |-> 7, ur_aath |-> 8,
   ur_nau |-> 9, ur_das |-> 10, ur_pandrah |-> 15, ur_bees |-> 20,
   ur_tees |-> 30, ur_chalees |-> 40, ur_pachaas |-> 50, ur_saath |-> 60,
   ur_nawway |-> 90, ur_sau |-> 100]

\* The numbers that the texts of the model write in digits.
Numerals ==
  {0, 1, 2, 3, 5, 30, 45, 50, 90, 100, 150, 250, 1234, 1500, 2000, 5000,
   120000}

\* The digit runs of the model.
DigitAtoms == { ToString(n) : n \in Numerals }

\* \d+ matches the whole atom.
IsDigits(a) == a \in DigitAtoms

\* parseInt(a, 10) of a digit run.
ParseInt(a) == CHOOSE n \in Numerals : ToString(n) = a

\* 10^k, k in 0..3
Pow10(k) == CASE k = 0 -> 1 [] k = 1 -> 10 [] k = 2 -> 100 [] OTHER -> 1000

\* parseFloat of "<int>.<frac>" in thousandths (frac of at most 3 digits).
ParseDecimal(int, frac) ==
  Milli(ParseInt(int)) + ParseInt(frac) * Pow10(3 - Len(frac))

\* wordToNumber(token) (lines 69-75), token given as the atoms the numeral
\* group of line 109 matched: a number word, a digit run, or int "." frac.
wordToNumber(token) ==
  IF Len(token) = 1 /\ token[1] \in DOMAIN EN_NUM_WORDS
    THEN Milli(EN_NUM_WORDS[token[1]])
  ELSE IF Len(token) = 1 /\ token[1] \in DOMAIN UR_NUM_WORDS
    THEN Milli(UR_NUM_WORDS[token[1]])
  ELSE IF Len(token) = 1 THEN Milli(ParseInt(token[1]))
  ELSE ParseDecimal(token[1], token[3])

\* clamp(v, lo, hi) == Math.max(lo, Math.min(hi, v))
clamp(v, lo, hi) ==
  LET m == IF hi < v THEN hi ELSE v IN IF lo > m THEN lo ELSE m

\* ms(sec) == Math.round(sec*1000): sec is held in thousandths, so sec*1000
\* is that count itself, already an integer number of milliseconds.
ms(sec) == sec

----------------------------------------------------------------------------
(* Quantity extractor (nlp.js:106-121)                                     *)

\* The number of spaces of s from offset j on: what a greedy \s* takes.
RECURSIVE SpacesAt(_, _)
SpacesAt(s, j) ==
  IF j < Len(s) /\ s[j + 1] = Sp THEN 1 + SpacesAt(s, j + 1) ELSE 0

\* \b(\d{1,3}) at offset i: a digit run of at most three digits.
PctDigitsAt(s, i) ==
  /\ i < Len(s)
  /\ Boundary(s, i)
  /\ IsDigits(s[i + 1])
  /\ Len(s[i + 1]) <= 3

\* /\b(\d{1,3})\s*%|\b(\d{1,3})\s*percent\b/i matches s at offset i.
PctAt(s, i) ==
  /\ PctDigitsAt(s, i)
  /\ LET j == i + 1 + SpacesAt(s, i + 1)
     IN  \/ LitAt(s, j, <<"%">>)
         \/ LitAt(s, j, <<"percent">>) /\ Boundary(s, j + 1)

\* The unit alternatives of line 109, in the order written (x? is greedy:
\* the longer form first).
UnitAlts ==
  << <<"seconds">>, <<"second">>, <<"secs">>, <<"sec">>, <<"s">>,
     <<"minutes">>, <<"minute">>, <<"mins">>, <<"min">>, <<"m">>,
     <<"meters">>, <<"meter">>, <<"centimeters">>, <<"centimeter">>,
     <<"cm">>, <<"degrees">>, <<"degree">>, <<"deg">>, <<"percent">>,
     <<"%">>, <<"ur_second">>, <<"ur_minute">>, <<"ur_meter">>,
     <<"ur_senti", Sp, "ur_meter">>, <<"ur_degree">>, <<"ur_feesad">> >>

\* The unit alternatives that match s at offset j and are followed by \b.
UnitHits(s, j) ==
  { k \in 1..Len(UnitAlts) :
      LitAt(s, j, UnitAlts[k]) /\ Boundary(s, j + Len(UnitAlts[k])) }

\* A regular expression that does not match.
NoMatch == [ok |-> FALSE]

\* \s*(unit)?\b from offset j with exactly k spaces taken: the unit matched
\* (<<>> when the optional group is skipped), or NoMatch.
TailWith(s, j, k) ==
  LET hits == UnitHits(s, j + k)
  IN  IF hits # {} THEN [ok |-> TRUE, unit |-> UnitAlts[Min(hits)]]
      ELSE IF Boundary(s, j + k) THEN [ok |-> TRUE, unit |-> <<>>]
      ELSE NoMatch

\* \s*(unit)?\b from offset j: \s* is greedy and gives spaces back one at a
\* time.
TailAt(s, j) ==
  LET n  == SpacesAt(s, j)
      ok == { k \in 0..n : TailWith(s, j, k).ok }
  IN  IF ok = {} THEN NoMatch
      ELSE TailWith(s, j, CHOOSE k \in ok : \A l \in ok : l <= k)

\* The numeral group of line 109 at offset i, as the lengths (in atoms) it
\* can take, longest first: a number word of either table, or \d+(?:\.\d+)?.
NumeralLens(s, i) ==
  IF i >= Len(s) THEN <<>>
  ELSE IF s[i + 1] \in DOMAIN EN_NUM_WORDS \/ s[i + 1] \in DOMAIN UR_NUM_WORDS
    THEN <<1>>
  ELSE IF IsDigits(s[i + 1])
    THEN IF i + 3 <= Len(s) /\ s[i + 2] = "." /\ IsDigits(s[i + 3])
           THEN <<3, 1>> ELSE <<1>>
  ELSE <<>>

\* The match of rx (line 109) at offset i: its groups num and unit, or
\* NoMatch.
RxAt(s, i) ==
  LET lens == NumeralLens(s, i)
      ok   == { k \in 1..Len(lens) : TailAt(s, i + lens[k]).ok }
  IN  IF ~Boundary(s, i) \/ ok = {} THEN NoMatch
      ELSE LET n == lens[Min(ok)]
           IN  [ok |-> TRUE, num |-> SubSeq(s, i + 1, i + n),
                unit |-> TailAt(s, i + n).unit]

\* unit texts beginning with sec / min / deg / cm, and with m not followed
\* by in (the tests of lines 114-118 on the lower-cased unit text)
StartsSec == { <<"seconds">>, <<"second">>, <<"secs">>, <<"sec">> }
StartsMin == { <<"minutes">>, <<"minute">>, <<"mins">>, <<"min">> }
StartsDeg == { <<"degrees">>, <<"degree">>, <<"deg">> }
StartsCm == { <<"cm">> }
StartsMNotMin == { <<"m">>, <<"meters">>, <<"meter">> }

\* The text of a unit that no rule of lines 114-119 renames: it is returned
\* as it was matched.
UnitText(u) == u[1]

\* Lines 114-120: the canonical unit of the matched unit text u.
CanonicalUnit(u) ==
  IF u \in StartsSec \/ u = <<"s">> \/ u = <<"ur_second">> THEN "s"
  ELSE IF u \in StartsMin \/ u = <<"ur_minute">> THEN "min"
  ELSE IF u \in StartsDeg \/ u = <<"ur_degree">> THEN "deg"
  ELSE IF u \in StartsCm \/ u = <<"ur_senti", Sp, "ur_meter">> THEN "cm"
  ELSE IF u \in StartsMNotMin \/ u = <<"ur_meter">> THEN "m"
  ELSE IF u = <<"%">> \/ u = <<"percent">> \/ u = <<"ur_feesad">> THEN "%"
  ELSE UnitText(u)

\* The offsets at which the percent pattern of line 107 matches.
PctHits(clause) == { i \in 0..Len(clause) : PctAt(clause, i) }

\* Line 108: the quantity of the leftmost percent match.  hasValue stands
\* for value != null.
PercentQuantity(clause) ==
  LET p == Milli(ParseInt(clause[Min(PctHits(clause)) + 1]))
  IN  [hasValue |-> TRUE, value |-> clamp(p, 0, Milli(100)), unit |-> "%"]

\* Lines 109-120: the generic pattern.
GenericQuantity(clause) ==
  LET hits == { i \in 0..Len(clause) : RxAt(clause, i).ok }
  IN  IF hits = {} THEN [hasValue |-> FALSE, value |-> 0, unit |-> Null]
      ELSE LET m == RxAt(clause, Min(hits))
               v == wordToNumber(m.num)
           IN  IF m.unit = <<>>
                 THEN [hasValue |-> TRUE, value |-> v, unit |-> Null]
               ELSE [hasValue |-> TRUE, value |-> v,
                     unit |-> CanonicalUnit(m.unit)]

\* An extractor that tries the generic pattern before the percent pattern.
extractQuantityGenericFirst(clause) ==
  IF GenericQuantity(clause).hasValue THEN GenericQuantity(clause)
  ELSE IF PctHits(clause) # {} THEN PercentQuantity(clause)
  ELSE GenericQuantity(clause)

extractQuantity(clause) ==
  IF PctHits(clause) # {} THEN PercentQuantity(clause)
  ELSE GenericQuantity(clause)

----------------------------------------------------------------------------
(* Clause segmenter (nlp.js:81-102)                                        *)

\* raw.replace(/\s+/g, " "): every run of spaces becomes one space.
RECURSIVE CollapseSpaces(_)
CollapseSpaces(t) ==
  IF Len(t) <= 1 THEN t
  ELSE IF t[1] = Sp /\ t[2] = Sp THEN CollapseSpaces(Tail(t))
  ELSE <<t[1]>> \o CollapseSpaces(Tail(t))

\* String.prototype.trim
RECURSIVE Trim(_)
Trim(t) ==
  IF t = <<>> THEN t
  ELSE IF t[1] = Sp THEN Trim(Tail(t))
  ELSE IF t[Len(t)] = Sp THEN Trim(SubSeq(t, 1, Len(t) - 1))
  ELSE t

\* The connectors of line 86, in the order written.
Connectors ==
  << <<"then">>, <<"and", Sp, "then">>, <<"after", Sp, "that">>, <<";">>,
     <<",">>, <<"and">>, <<"phir">>, <<"ur_aur">> >>

\* The action-verb keywords of line 89, in the order written.
Keywords ==
  << <<"move">>, <<"go">>, <<"take">>, <<"turn">>, <<"rotate">>, <<"stop">>,
     <<"speed">>, <<"camera">>, <<"zoom">>, <<"lights">>, <<"siren">>,
     <<"spray">>, <<"taser">> >>

\* s.split(/\b(?:alt1|alt2|...)\b/gi): the piece that starts at offset p,
\* the scan being at offset q; with capture, the matched text follows each
\* piece (the expression is one capture group, as on line 89).
RECURSIVE SplitFrom(_, _, _, _, _)
SplitFrom(s, p, q, alts, capture) ==
  IF q >= Len(s) THEN << SubSeq(s, p + 1, Len(s)) >>
  ELSE Bind(AltAt(s, q, alts), LAMBDA k :
         IF k = 0 THEN SplitFrom(s, p, q + 1, alts, capture)
         ELSE Bind(q + Len(alts[k]), LAMBDA e :
                << SubSeq(s, p + 1, q) >>
                \o (IF capture THEN << alts[k] >> ELSE <<>>)
                \o SplitFrom(s, e, e, alts, capture)))

\* parts.filter(Boolean): the empty strings are dropped.
RECURSIVE FilterNonEmpty(_)
FilterNonEmpty(parts) ==
  IF parts = <<>> THEN <<>>
  ELSE IF Head(parts) = <<>> THEN FilterNonEmpty(Tail(parts))
  ELSE <<Head(parts)>> \o FilterNonEmpty(Tail(parts))

\* t.split(/\s+/).slice(-1)[0]: what follows the last space of t.
RECURSIVE LastWord(_)
LastWord(t) ==
  IF t = <<>> \/ t[Len(t)] = Sp THEN <<>>
  ELSE LastWord(SubSeq(t, 1, Len(t) - 1)) \o <<t[Len(t)]>>

\* Lines 95-97: for (i = 1; i < parts.length; i += 2)
\*   parts[i] = lastWord(parts[i-1]) + " " + parts[i]
\* (JavaScript index i is index i+1 here).
Reattach(parts) ==
  [i \in 1..Len(parts) |->
     IF i % 2 = 0 THEN LastWord(parts[i - 1]) \o <<Sp>> \o parts[i]
     ELSE parts[i]]

\* Lines 93-98 for one primary clause cl.
SecondaryParts(cl) ==
  Bind(SplitFrom(cl, 0, 0, Keywords, TRUE), LAMBDA split :
  Bind(FilterNonEmpty([i \in 1..Len(split) |-> Trim(split[i])]),
       LAMBDA parts : Reattach(parts)))

RECURSIVE FlattenParts(_, _)
\* finalClauses.push(...parts) over the primary clauses from the k-th on
FlattenParts(primary, k) ==
  IF k > Len(primary) THEN <<>>
  ELSE SecondaryParts(primary[k]) \o FlattenParts(primary, k + 1)

splitClauses(raw) ==
  Bind(Trim(CollapseSpaces(raw)), LAMBDA text :
  Bind(SplitFrom(text, 0, 0, Connectors, FALSE), LAMBDA primary :
       FilterNonEmpty(FlattenParts(primary, 1))))

----------------------------------------------------------------------------
(* Clause classifier (nlp.js:8-18, 124-217)                                *)

\* Confidences, in hundredths.
DEFAULT_CONFIDENCE == 85
LOW_CONFIDENCE == 50
HIGH_CONFIDENCE == 95

\* The context object as the module creates it (lines 13-18).
InitialContext ==
  [lastDirection |-> Null, lastSpeedPct |-> Milli(50),
   lastHeadingDeg |-> 0, lastTurnStyle |-> "normal"]

\* The cue tests of lines 132-144 and 161.
little(raw) == Test(raw, {<<"little">>, <<"slightly">>, <<"a", Sp, "bit">>})
sharp(raw) == Test(raw, {<<"sharp">>})
forward(raw) == Test(raw, {<<"forward">>, <<"ahead">>, <<"straight">>})
backward(raw) == Test(raw, {<<"back">>, <<"backward">>, <<"reverse">>})
left(raw) == Test(raw, {<<"left">>})
right(raw) == Test(raw, {<<"right">>})
rotate(raw) == Test(raw, {<<"rotate">>, <<"spin">>})
turn(raw) == Test(raw, {<<"turn">>})
stop(raw) == Test(raw, {<<"stop">>, <<"halt">>, <<"freeze">>})
speedWord(raw) ==
  Test(raw, {<<"speed">>, <<"throttle">>, <<"velocity">>, <<"power">>})
estopCue(raw) ==
  Test(raw, {<<"emergency", Sp, "stop">>, <<"panic">>, <<"kill", Sp, "switch">>})
forCue(raw) == Test(raw, {<<"for">>})

\* forward?"forward":backward?"backward":left?"left":right?"right":null
DirOf(raw) ==
  IF forward(raw) THEN "forward"
  ELSE IF backward(raw) THEN "backward"
  ELSE IF left(raw) THEN "left"
  ELSE IF right(raw) THEN "right"
  ELSE Null

\* sharp?"sharp":little?"little":"normal"
StyleOf(raw) ==
  IF sharp(raw) THEN "sharp" ELSE IF little(raw) THEN "little" ELSE "normal"

\* Each rule gives the descriptors pushed and the context it leaves.

\* Lines 144-147.
SafetyRule(raw, q, ctx) ==
  [out |-> << [action |-> "safety", type |-> "estop",
               confidence |-> HIGH_CONFIDENCE, raw |-> raw] >>,
   ctx |-> ctx]

\* A stop rule that keeps the direction of the context.
StopRuleKeepsDirection(raw, q, ctx) ==
  [out |-> << [action |-> "move", type |-> "stop",
               confidence |-> HIGH_CONFIDENCE, raw |-> raw] >>,
   ctx |-> ctx]

\* Line 150.
StopRule(raw, q, ctx) ==
  [out |-> << [action |-> "move", type |-> "stop",
               confidence |-> HIGH_CONFIDENCE, raw |-> raw] >>,
   ctx |-> [ctx EXCEPT !.lastDirection = Null]]

\* Lines 153-158.
SpeedMatches(raw, q) ==
  speedWord(raw) /\ q.hasValue /\ (q.unit = "%" \/ q.unit = Null)

\* A speed rule that takes the quantity as it is.
SpeedRuleUnclamped(raw, q, ctx) ==
  [out |-> << [action |-> "speed", type |-> "set", value |-> q.value,
               unit |-> "%", confidence |-> DEFAULT_CONFIDENCE,
               raw |-> raw] >>,
   ctx |-> [ctx EXCEPT !.lastSpeedPct = q.value]]

SpeedRule(raw, q, ctx) ==
  LET pct == clamp(q.value, 0, Milli(100))
  IN  [out |-> << [action |-> "speed", type |-> "set", value |-> pct,
                   unit |-> "%", confidence |-> DEFAULT_CONFIDENCE,
                   raw |-> raw] >>,
       ctx |-> [ctx EXCEPT !.lastSpeedPct = pct]]

\* Lines 161-170.
TimedMatches(raw, q) ==
  /\ forCue(raw) /\ q.hasValue /\ (q.unit = "s" \/ q.unit = "min")
  /\ DirOf(raw) # Null

\* A timed rule that pushes the move and the stop with no wait between.
TimedRuleWithoutWait(raw, q, ctx) ==
  LET dur == IF q.unit = "min" THEN ms(q.value * 60) ELSE ms(q.value)
      dir == DirOf(raw)
  IN  [out |-> << [action |-> "move", type |-> dir, style |-> StyleOf(raw),
                   durationMs |-> dur, relative |-> TRUE,
                   confidence |-> DEFAULT_CONFIDENCE, raw |-> raw],
                  [action |-> "move", type |-> "stop",
                   confidence |-> HIGH_CONFIDENCE, raw |-> raw] >>,
       ctx |-> [ctx EXCEPT !.lastDirection = dir]]

TimedRule(raw, q, ctx) ==
  LET dur == IF q.unit = "min" THEN ms(q.value * 60) ELSE ms(q.value)
      dir == DirOf(raw)
  IN  [out |-> << [action |-> "move", type |-> dir, style |-> StyleOf(raw),
                   durationMs |-> dur, relative |-> TRUE,
                   confidence |-> DEFAULT_CONFIDENCE, raw |-> raw],
                  [action |-> "wait", value |-> dur, unit |-> "ms",
                   confidence |-> HIGH_CONFIDENCE, raw |-> raw],
                  [action |-> "move", type |-> "stop",
                   confidence |-> HIGH_CONFIDENCE, raw |-> raw] >>,
       ctx |-> [ctx EXCEPT !.lastDirection = dir]]

\* Lines 173-180.
DistanceMatches(raw, q) ==
  q.hasValue /\ (q.unit = "m" \/ q.unit = "cm") /\ DirOf(raw) # Null

\* A distance rule that takes every quantity as meters.
DistanceRuleAllMeters(raw, q, ctx) ==
  [out |-> << [action |-> "move", type |-> DirOf(raw), distanceM |-> q.value,
               style |-> StyleOf(raw), relative |-> TRUE,
               confidence |-> DEFAULT_CONFIDENCE, raw |-> raw] >>,
   ctx |-> [ctx EXCEPT !.lastDirection = DirOf(raw)]]

DistanceRule(raw, q, ctx) ==
  LET meters == IF q.unit = "cm" THEN q.value \div 100 ELSE q.value
      dir    == DirOf(raw)
  IN  [out |-> << [action |-> "move", type |-> dir, distanceM |-> meters,
                   style |-> StyleOf(raw), relative |-> TRUE,
                   confidence |-> DEFAULT_CONFIDENCE, raw |-> raw] >>,
       ctx |-> [ctx EXCEPT !.lastDirection = dir]]

\* Lines 183-188.
RotateMatches(raw, q) == rotate(raw) /\ q.hasValue /\ q.unit = "deg"

\* A rotate rule that turns clockwise whatever the cues.
RotateRuleClockwise(raw, q, ctx) ==
  [out |-> << [action |-> "rotate", direction |-> "cw",
               value |-> q.value, unit |-> "deg", relative |-> TRUE,
               confidence |-> DEFAULT_CONFIDENCE, raw |-> raw] >>,
   ctx |-> [ctx EXCEPT !.lastHeadingDeg = @ + q.value]]

RotateRule(raw, q, ctx) ==
  LET dir == IF left(raw) THEN "ccw" ELSE "cw"
  IN  [out |-> << [action |-> "rotate", direction |-> dir,
                   value |-> q.value, unit |-> "deg", relative |-> TRUE,
                   confidence |-> DEFAULT_CONFIDENCE, raw |-> raw] >>,
       ctx |-> [ctx EXCEPT !.lastHeadingDeg =
                  IF dir = "cw" THEN @ + q.value ELSE @ - q.value]]

\* Lines 191-194.
TurnMatches(raw) == (turn(raw) \/ sharp(raw)) /\ (left(raw) \/ right(raw))

TurnRule(raw, q, ctx) ==
  LET dir == IF left(raw) THEN "left" ELSE "right"
  IN  [out |-> << [action |-> "turn", direction |-> dir,
                   style |-> IF sharp(raw) THEN "sharp" ELSE "normal",
                   relative |-> TRUE, confidence |-> DEFAULT_CONFIDENCE,
                   raw |-> raw] >>,
       ctx |-> [ctx EXCEPT !.lastDirection = dir]]

\* Lines 197-201.
CardinalMatches(raw) == DirOf(raw) # Null

CardinalRule(raw, q, ctx) ==
  LET dir == DirOf(raw)
  IN  [out |-> << [action |-> "move", type |-> dir, style |-> StyleOf(raw),
                   relative |-> TRUE, confidence |-> DEFAULT_CONFIDENCE,
                   raw |-> raw] >>,
       ctx |-> [ctx EXCEPT !.lastDirection = dir]]

\* Lines 204-212: the accessory cue tests, in the order written, with the
\* action and type each one pushes.
AccessoryCues ==
  << [cue |-> {<<"camera">>, <<"photo">>, <<"picture">>},
      action |-> "camera", type |-> "photo"],
     [cue |-> {<<"video">>, <<"record">>},
      action |-> "camera", type |-> "record"],
     [cue |-> {<<"zoom">>}, action |-> "camera", type |-> "zoom"],
     [cue |-> {<<"siren">>, <<"alarm">>},
      action |-> "siren", type |-> "toggle"],
     [cue |-> {<<"light">>, <<"flash">>},
      action |-> "lights", type |-> "toggle"],
     [cue |-> {<<"spray">>, <<"gas">>, <<"water">>},
      action |-> "spray", type |-> "activate"],
     [cue |-> {<<"taser">>, <<"shock">>, <<"stun">>},
      action |-> "taser", type |-> "fire"] >>

\* The accessory tests that hold of raw.
AccessoryHits(raw) ==
  { k \in 1..Len(AccessoryCues) : Test(raw, AccessoryCues[k].cue) }

AccessoryRule(raw, q, ctx) ==
  LET a == AccessoryCues[Min(AccessoryHits(raw))]
  IN  [out |-> << IF a.type = "zoom"
                    THEN [action |-> "camera", type |-> "zoom",
                          value |-> IF q.hasValue THEN q.value ELSE Milli(1),
                          unit |-> "step",
                          confidence |-> DEFAULT_CONFIDENCE, raw |-> raw]
                  ELSE [action |-> a.action, type |-> a.type,
                        confidence |-> DEFAULT_CONFIDENCE, raw |-> raw] >>,
       ctx |-> ctx]

\* A fallback that also forgets the direction, as the stop rule does.
FallbackForgetsDirection(raw, q, ctx) ==
  [out |-> << [action |-> "unknown", raw |-> raw,
               confidence |-> LOW_CONFIDENCE] >>,
   ctx |-> [ctx EXCEPT !.lastDirection = Null]]

\* A fallback that reports the generic default confidence.
FallbackDefaultConfidence(raw, q, ctx) ==
  [out |-> << [action |-> "unknown", raw |-> raw,
               confidence |-> DEFAULT_CONFIDENCE] >>,
   ctx |-> ctx]

\* Lines 215-216.
FallbackRule(raw, q, ctx) ==
  [out |-> << [action |-> "unknown", raw |-> raw,
               confidence |-> LOW_CONFIDENCE] >>,
   ctx |-> ctx]

\* A cascade that tries the stop rule before the safety rule.
parseClauseStopFirst(clauseRaw, ctx) ==
  Bind(Trim(clauseRaw), LAMBDA raw :
  Bind(extractQuantity(raw), LAMBDA q :
    IF stop(raw) THEN StopRule(raw, q, ctx)
    ELSE IF estopCue(raw) THEN SafetyRule(raw, q, ctx)
    ELSE IF SpeedMatches(raw, q) THEN SpeedRule(raw, q, ctx)
    ELSE IF TimedMatches(raw, q) THEN TimedRule(raw, q, ctx)
    ELSE IF DistanceMatches(raw, q) THEN DistanceRule(raw, q, ctx)
    ELSE IF RotateMatches(raw, q) THEN RotateRule(raw, q, ctx)
    ELSE IF TurnMatches(raw) THEN TurnRule(raw, q, ctx)
    ELSE IF CardinalMatches(raw) THEN CardinalRule(raw, q, ctx)
    ELSE IF AccessoryHits(raw) # {} THEN AccessoryRule(raw, q, ctx)
    ELSE FallbackRule(raw, q, ctx)))

\* A cascade that tries the cardinal rule before the turn rule.
parseClauseCardinalFirst(clauseRaw, ctx) ==
  Bind(Trim(clauseRaw), LAMBDA raw :
  Bind(extractQuantity(raw), LAMBDA q :
    IF estopCue(raw) THEN SafetyRule(raw, q, ctx)
    ELSE IF stop(raw) THEN StopRule(raw, q, ctx)
    ELSE IF SpeedMatches(raw, q) THEN SpeedRule(raw, q, ctx)
    ELSE IF TimedMatches(raw, q) THEN TimedRule(raw, q, ctx)
    ELSE IF DistanceMatches(raw, q) THEN DistanceRule(raw, q, ctx)
    ELSE IF RotateMatches(raw, q) THEN RotateRule(raw, q, ctx)
    ELSE IF CardinalMatches(raw) THEN CardinalRule(raw, q, ctx)
    ELSE IF TurnMatches(raw) THEN TurnRule(raw, q, ctx)
    ELSE IF AccessoryHits(raw) # {} THEN AccessoryRule(raw, q, ctx)
    ELSE FallbackRule(raw, q, ctx)))

\* parseClause(clauseRaw) run on the context ctx: the descriptors returned
\* and the context left.
parseClause(clauseRaw, ctx) ==
  Bind(Trim(clauseRaw), LAMBDA raw :
  Bind(extractQuantity(raw), LAMBDA q :
    IF estopCue(raw) THEN SafetyRule(raw, q, ctx)
    ELSE IF stop(raw) THEN StopRule(raw, q, ctx)
    ELSE IF SpeedMatches(raw, q) THEN SpeedRule(raw, q, ctx)
    ELSE IF TimedMatches(raw, q) THEN TimedRule(raw, q, ctx)
    ELSE IF DistanceMatches(raw, q) THEN DistanceRule(raw, q, ctx)
    ELSE IF RotateMatches(raw, q) THEN RotateRule(raw, q, ctx)
    ELSE IF TurnMatches(raw) THEN TurnRule(raw, q, ctx)
    ELSE IF CardinalMatches(raw) THEN CardinalRule(raw, q, ctx)
    ELSE IF AccessoryHits(raw) # {} THEN AccessoryRule(raw, q, ctx)
    ELSE FallbackRule(raw, q, ctx)))

----------------------------------------------------------------------------
(* Main parser (nlp.js:220-235)                                            *)

\* Lines 224-227: the loop over the clauses from the k-th on, started on
\* the context ctx; one record per clause.
RECURSIVE RunClauses(_, _, _)
RunClauses(clauses, k, ctx) ==
  IF k > Len(clauses) THEN <<>>
  ELSE Bind(parseClause(clauses[k], ctx), LAMBDA r :
         << [clause |-> clauses[k], ctxIn |-> ctx, out |-> r.out,
             ctxOut |-> r.ctx] >>
         \o RunClauses(clauses, k + 1, r.ctx))

\* commands.unshift(...parsed) over the loop: the newest clause first.
RECURSIVE PushedNewestFirst(_)
PushedNewestFirst(st) ==
  IF st = <<>> THEN <<>> ELSE PushedNewestFirst(Tail(st)) \o Head(st).out

\* commands.push(...parsed) over the loop
RECURSIVE Pushed(_)
Pushed(st) == IF st = <<>> THEN <<>> ELSE Head(st).out \o Pushed(Tail(st))

\* The context the loop leaves.
ContextAfter(st, ctx) == IF st = <<>> THEN ctx ELSE st[Len(st)].ctxOut

\* commands.some(c => c.action !== "unknown")
SomeKnown(cmds) == \E i \in 1..Len(cmds) : cmds[i].action # "unknown"

\* An "again" fallback that does not look at the direction held.
AgainWithoutDirection(text, cmds, ctx) ==
  Test(text, {<<"again">>}) /\ ~SomeKnown(cmds)

\* Line 230: the condition of the "again" fallback.
AgainApplies(text, cmds, ctx) ==
  Test(text, {<<"again">>}) /\ ~SomeKnown(cmds) /\ ctx.lastDirection # Null

\* An "again" move that always goes forward.
AgainMoveForward(ctx) ==
  [action |-> "move", type |-> "forward", relative |-> TRUE,
   confidence |-> LOW_CONFIDENCE, raw |-> <<"again">>]

\* Line 231.
AgainMove(ctx) ==
  [action |-> "move", type |-> ctx.lastDirection, relative |-> TRUE,
   confidence |-> LOW_CONFIDENCE, raw |-> <<"again">>]

\* parseCommandStructured(sentenceRaw) run on the context ctx.
parseCommandStructured(sentenceRaw, ctx) ==
  Bind(urduToEnglish(sentenceRaw), LAMBDA text :
  Bind(splitClauses(text), LAMBDA clauses :
  Bind(RunClauses(clauses, 1, ctx), LAMBDA st :
  Bind(Pushed(st), LAMBDA cmds :
  Bind(ContextAfter(st, ctx), LAMBDA after :
    [normalized |-> text,
     steps      |-> st,
     commands   |-> IF AgainApplies(text, cmds, after)
                      THEN Append(cmds, AgainMove(after)) ELSE cmds,
     ctx        |-> after])))))

----------------------------------------------------------------------------
(* Legacy adapter (nlp.js:238-264)                                         *)

\* The fraction digits of a number held in thousandths, trailing zeros
\* dropped (f in 1..999).
FractionDigits(f) ==
  LET d1 == f \div 100
      d2 == (f \div 10) % 10
      d3 == f % 10
  IN  IF d3 # 0 THEN ToString(d1) \o ToString(d2) \o ToString(d3)
      ELSE IF d2 # 0 THEN ToString(d1) \o ToString(d2)
      ELSE ToString(d1)

\* `${v}` of a non-negative number held in thousandths.
FormatMilli(v) ==
  IF v % MsPerSec = 0 THEN << ToString(v \div MsPerSec) >>
  ELSE << ToString(v \div MsPerSec), ".", FractionDigits(v % MsPerSec) >>

\* Lines 242-260: the tokens pushed for one descriptor.
LowerOne(c) ==
  CASE c.action = "unknown" -> <<>>
    [] c.action = "move" ->
         << IF c.type = "stop" THEN <<"move", ".", "stop">>
            ELSE <<"move", ".", c.type>> >>
         \o (IF "distanceM" \in DOMAIN c
               THEN << <<"move", ".", "distance", ":">>
                       \o FormatMilli(c.distanceM) \o <<"m">> >>
             ELSE <<>>)
         \o (IF "durationMs" \in DOMAIN c
               THEN << <<"move", ".", "duration", ":", ToString(c.durationMs)>>,
                       <<"wait", ":", ToString(c.durationMs)>>,
                       <<"move", ".", "stop">> >>
             ELSE <<>>)
    [] c.action = "turn" -> << <<"turn", ".", c.direction>> >>
    [] c.action = "rotate" ->
         << <<"rotate", ".", c.direction, ".", "deg", ":">>
            \o FormatMilli(c.value) >>
    [] c.action = "speed" ->
         << <<"move", ".", "speed", ":">> \o FormatMilli(c.value) >>
    [] c.action = "camera" ->
         << IF c.type = "photo" THEN <<"camera", ".", "photo">>
            ELSE IF c.type = "record" THEN <<"camera", ".", "record">>
            ELSE <<"camera", ".", "zoom", ":">> \o FormatMilli(c.value) >>
    [] c.action = "siren" -> << <<"siren">> >>
    [] c.action = "lights" -> << <<"flash">> >>
    [] c.action = "spray" -> << <<"spray">> >>
    [] c.action = "taser" -> << <<"taser">> >>
    [] c.action = "wait" -> << <<"wait", ":", ToString(c.value)>> >>
    [] c.action = "safety" ->
         IF c.type = "estop" THEN << <<"safety", ".", "estop">> >> ELSE <<>>
    [] OTHER -> <<>>

\* The loop of lines 241-261 over the descriptors.
RECURSIVE LowerAll(_)
LowerAll(cmds) ==
  IF cmds = <<>> THEN <<>> ELSE LowerOne(Head(cmds)) \o LowerAll(Tail(cmds))

\* A return statement without line 262: the array flat, empty or not.
AlwaysArray(tokens) == [kind |-> "array", items |-> tokens]

\* Lines 262-263: the return value, the string "unknown" or the array flat.
LegacyResult(tokens) ==
  IF Len(tokens) = 0 THEN [kind |-> "string", text |-> <<"unknown">>]
  ELSE [kind |-> "array", items |-> tokens]

\* parseCommandLegacy's value for the descriptors parseCommandStructured
\* returned.
Lower(cmds) == LegacyResult(LowerAll(cmds))

----------------------------------------------------------------------------
(* Inputs                                                                  *)

\* The text of the words ws, one space between two words.
Words(ws) ==
  [i \in 1..(2 * Len(ws) - 1) |-> IF i % 2 = 1 THEN ws[(i + 1) \div 2] ELSE Sp]

\* No digit run is split over two atoms.
Canonical(t) ==
  \A i \in 1..(Len(t) - 1) : ~(IsDigits(t[i]) /\ IsDigits(t[i + 1]))

NormAlphabet == {"go", Sp, "ur_aage", "ur_meter", "ur_senti", "ur_feesad"}

NormInputs == TextsUpTo(NormAlphabet, MaxNormLen)

QtyAlphabet == {"45", "250", "1234", Sp, "%", "percent", "m", "."}

QtyInputs == { t \in TextsUpTo(QtyAlphabet, MaxQtyLen) : Canonical(t) }

\* The unit spellings of the generic pattern (line 109) and the unit each
\* one stands for.
UnitSpellings ==
  [seconds |-> "s", second |-> "s", secs |-> "s", sec |-> "s", s |-> "s",
   minutes |-> "min", minute |-> "min", mins |-> "min", min |-> "min",
   m |-> "m", meters |-> "m", meter |-> "m",
   centimeters |-> "cm", centimeter |-> "cm", cm |-> "cm",
   degrees |-> "deg", degree |-> "deg", deg |-> "deg", percent |-> "%"]

\* "5 <unit>" for every spelling, "5 %", "5" alone and "5 robots".
UnitClauses ==
  { <<"5", Sp, u>> : u \in DOMAIN UnitSpellings }
  \cup { <<"5", Sp, "%">>, <<"5">>, <<"5", Sp, "robots">> }

\* The example of line 267, which the module parses when it is loaded.
Example ==
  <<"ur_aage", Sp, "ur_barho", Sp, "2", Sp, "ur_meter", Sp, "ur_phir", Sp,
    "ur_daen", Sp, "ur_murro", Sp, "ur_thora", Sp, "ur_sa", Sp, "ur_aur", Sp,
    "rotate", Sp, "90", Sp, "degrees", Sp, "ur_phir", Sp, "stop", Sp,
    "ur_karo">>

Scenario ==
  Words(<<"move", "forward", "2", "meters", "then", "turn", "right", "a",
          "little", "and", "rotate", "90", "degrees", "then", "stop">>)

TwoMinutes == Words(<<"move", "forward", "for", "2", "minutes">>)

Again == Words(<<"again">>)

MoveLeftCm == Words(<<"move", "left", "150", "cm">>)

TurnLeftMeters == Words(<<"turn", "left", "2", "m">>)

SetSpeed == <<"set", Sp, "speed", Sp, "45", "%">>

\* The utterances of a session.
SessionUtterances ==
  { Scenario, TwoMinutes, Example,
    Again, Words(<<"do", "it", "again">>),
    Words(<<"hello", "robot">>), Words(<<"hello", "and", "robot">>),
    Words(<<"and">>),
    SetSpeed, Words(<<"speed", "250">>), Words(<<"speed", "30">>),
    MoveLeftCm,
    Words(<<"backward", "for", "5", "seconds">>),
    Words(<<"emergency", "stop">>), Words(<<"stop">>),
    Words(<<"turn", "left">>), Words(<<"sharp", "right">>),
    Words(<<"rotate", "left", "90", "degrees">>),
    Words(<<"forward">>), Words(<<"right", "a", "bit">>),
    Words(<<"siren", "on">>), Words(<<"zoom", "3">>),
    Words(<<"take", "a", "photo">>) }

\* The phrases of the generated utterances: every rule of the classifier,
\* the connectors, and words that are no cue.
Phrases ==
  { Words(<<"panic">>), Words(<<"stop">>), <<"speed", Sp, "45", "%">>,
    Words(<<"forward", "for", "2", "s">>), Words(<<"back", "30", "cm">>),
    Words(<<"rotate", "90", "deg">>), Words(<<"turn", "left">>),
    Words(<<"right">>), Words(<<"photo">>), Words(<<"record">>),
    Words(<<"zoom">>), Words(<<"alarm">>), Words(<<"flash">>),
    Words(<<"gas">>), Words(<<"stun">>), Words(<<"hello">>),
    Words(<<"again">>), Words(<<"and">>), Words(<<"then">>) }

\* The phrases ps, one space between two phrases.
RECURSIVE JoinPhrases(_)
JoinPhrases(ps) ==
  IF Len(ps) = 0 THEN <<>>
  ELSE IF Len(ps) = 1 THEN ps[1]
  ELSE ps[1] \o <<Sp>> \o JoinPhrases(Tail(ps))

\* The accessory keywords of the segmenter (line 89) and the words camera,
\* photo and video, each with the descriptor it stands for.
AccessoryWords ==
  [camera |-> [action |-> "camera", type |-> "photo"],
   photo  |-> [action |-> "camera", type |-> "photo"],
   video  |-> [action |-> "camera", type |-> "record"],
   zoom   |-> [action |-> "camera", type |-> "zoom"],
   siren  |-> [action |-> "siren", type |-> "toggle"],
   lights |-> [action |-> "lights", type |-> "toggle"],
   spray  |-> [action |-> "spray", type |-> "activate"],
   taser  |-> [action |-> "taser", type |-> "fire"]]

\* Each accessory word alone, "lights on" and "zoom 3".
AccessoryClauses ==
  { <<w>> : w \in DOMAIN AccessoryWords }
  \cup { Words(<<"lights", "on">>), Words(<<"zoom", "3">>) }

SirenOn == Words(<<"siren", "on">>)

ForwardTurnLeft == Words(<<"forward", "2", "meters", "turn", "left">>)

\* The tokens parseCommandLegacy pushes (lines 244-258), one of each form.
Tokens ==
  { <<"move", ".", "forward">>, <<"move", ".", "stop">>,
    <<"move", ".", "distance", ":", "2", "m">>,
    <<"move", ".", "duration", ":", "5000">>,
    <<"move", ".", "speed", ":", "50">>,
    <<"turn", ".", "left">>,
    <<"rotate", ".", "cw", ".", "deg", ":", "90">>,
    <<"camera", ".", "photo">>, <<"camera", ".", "record">>,
    <<"camera", ".", "zoom", ":", "3">>,
    <<"siren">>, <<"flash">>, <<"spray">>, <<"taser">>,
    <<"wait", ":", "1500">>, <<"safety", ".", "estop">> }

ParseInputs ==
  { Scenario, TwoMinutes, MoveLeftCm, TurnLeftMeters, ForwardTurnLeft,
    SirenOn, Words(<<"stop", "now">>), Words(<<"hello", "and", "robot">>) }
  \cup AccessoryClauses \cup Tokens
  \cup { JoinPhrases(ps) : ps \in UNION { [1..k -> Phrases] : k \in 0..MaxPhrases } }

\* Contexts that calls leave: the initial one, the one after "speed 45%",
\* "rotate 90 degrees", "forward", and the one after "speed 250",
\* "rotate left 90 degrees", "turn left".
ParseContexts ==
  { InitialContext,
    [lastDirection |-> "forward", lastSpeedPct |-> Milli(45),
     lastHeadingDeg |-> Milli(90), lastTurnStyle |-> "normal"],
    [lastDirection |-> "left", lastSpeedPct |-> Milli(100),
     lastHeadingDeg |-> 0 - Milli(90), lastTurnStyle |-> "normal"] }

----------------------------------------------------------------------------
(* The state machine                                                       *)

NoQuantity == [hasValue |-> FALSE, value |-> 0, unit |-> Null]
NotReturned == [kind |-> "none"]

\* Loading the module parses Example on the initial context (line 268).
LoadedContext == parseCommandStructured(Example, InitialContext).ctx

\* The bots that send requests.
Bots == {"A", "B"}

\* Every bot on a context of its own, as the module creates it.
NothingIsolated ==
  [contexts |-> [b \in Bots |-> LoadedContext], flat |-> NotReturned]

\* const bots = new Map(): no bot is known.
NoBots == [b \in {} |-> FALSE]

\* The module after it is loaded, about to be called on u with context c.
Loaded(u, c) ==
  /\ context = c
  /\ ctxBefore = c
  /\ utterance = u
  /\ call = "none"
  /\ normalized = <<>>
  /\ quantity = NoQuantity
  /\ steps = <<>>
  /\ commands = <<>>
  /\ flat = NotReturned
  /\ botId = Null
  /\ received = 0
  /\ now = 0
  /\ requests = <<>>
  /\ published = <<>>
  /\ isolated = NothingIsolated
  /\ bots = NoBots

Abs(n) == IF n < 0 THEN -n ELSE n

\* One call of parseCommandLegacy(u), the default export, which runs
\* parseCommandStructured(u): the whole call is one step, there is no
\* suspension point in it.
ParseLegacy(u) ==
  \E r \in {parseCommandStructured(u, context)} :
      /\ Abs(r.ctx.lastHeadingDeg) <= Milli(MaxHeading)
      /\ call' = "parseCommandLegacy"
      /\ utterance' = u
      /\ ctxBefore' = context
      /\ context' = r.ctx
      /\ normalized' = r.normalized
      /\ steps' = r.steps
      /\ commands' = r.commands
      /\ flat' = Lower(r.commands)
      /\ UNCHANGED quantity
      /\ UNCHANGED serverVars

\* A session: any sequence of calls on the process-wide context.
Init == Loaded(<<>>, LoadedContext)

Next == \E u \in SessionUtterances : ParseLegacy(u)

Spec == Init /\ [][Next]_vars

\* One call of the default export on a generated utterance.
InitParse == \E u \in ParseInputs : \E c \in ParseContexts : Loaded(u, c)

ParseOnce == call = "none" /\ ParseLegacy(utterance)

SpecParse == InitParse /\ [][ParseOnce]_vars

\* urduToEnglish applied to a text.
InitNormalize == \E u \in NormInputs : Loaded(u, InitialContext)

Normalize ==
  /\ call = "none"
  /\ call' = "urduToEnglish"
  /\ normalized' = urduToEnglish(utterance)
  /\ UNCHANGED <<context, ctxBefore, utterance, quantity, steps, commands,
                 flat>>
  /\ UNCHANGED serverVars

SpecNormalize == InitNormalize /\ [][Normalize]_vars

\* extractQuantity applied to a clause.
InitQuantity ==
  \E u \in QtyInputs \cup UnitClauses \cup {SetSpeed} :
     Loaded(u, InitialContext)

ExtractQuantity ==
  /\ call = "none"
  /\ call' = "extractQuantity"
  /\ quantity' = extractQuantity(utterance)
  /\ UNCHANGED <<context, ctxBefore, utterance, normalized, steps, commands,
                 flat>>
  /\ UNCHANGED serverVars

SpecQuantity == InitQuantity /\ [][ExtractQuantity]_vars

----------------------------------------------------------------------------
(* The server (part_001): POST /api/bots/:id/nlp, lines 266-277, and       *)
(* POST /api/bots/:botId/commands, lines 338-369                           *)

\* The requests one run of the server receives.
MaxRequests == 2

ForwardTwoSeconds == Words(<<"forward", "for", "2", "s">>)

\* A timed move followed by a further motion.
ForwardAndOn == ForwardTwoSeconds \o <<Sp>> \o Words(<<"then", "forward">>)

\* The emergency stop an operator sends while a bot is moving.
Panic == Words(<<"panic">>)

\* The texts the operators send.
ServerTexts == { Again, ForwardAndOn, Panic }

\* Array.isArray(parsed) ? parsed : [parsed]
StepsOf(parsed) ==
  IF parsed.kind = "array" THEN parsed.items ELSE << parsed.text >>

\* typeof step === "string" && step.startsWith("wait:")
IsWait(step) == Len(step) >= 2 /\ step[1] = "wait" /\ step[2] = ":"

\* parseInt(step.split(":")[1], 10) || 0
DelayOf(step) ==
  IF Len(step) >= 3 /\ IsDigits(step[3]) THEN ParseInt(step[3]) ELSE 0

\* `bot/${botId}/commands`
CommandTopic(b) == <<"bot", "/", b, "/", "commands">>

\* The for loop of lines 350-362 from the step at pos up to the next await
\* or the end: the steps published, where the loop stands, and whether it
\* awaits a timer.
RECURSIVE RunSteps(_, _)
RunSteps(stepList, pos) ==
  IF pos > Len(stepList)
    THEN [sent |-> <<>>, pos |-> pos, awaits |-> FALSE, delay |-> 0]
  ELSE IF IsWait(stepList[pos])
    THEN [sent |-> <<>>, pos |-> pos, awaits |-> TRUE,
          delay |-> DelayOf(stepList[pos])]
  ELSE Bind(RunSteps(stepList, pos + 1), LAMBDA r :
         [r EXCEPT !.sent = <<[index |-> pos, step |-> stepList[pos]]>> \o @])

\* The messages of one run of the loop for request k of bot b, as they are
\* handed to mqtt.publish; request, index and at record which step of
\* which request the message is and when it was published.
Messages(k, b, sent) ==
  [i \in 1..Len(sent) |->
     [topic |-> CommandTopic(b), command |-> sent[i].step,
      request |-> k, index |-> sent[i].index, at |-> now]]

\* A loop whose timers have no delay: setTimeout(r, 0).
ProgressWithoutDelay(req, from, r) ==
  [req EXCEPT
     !.pos = r.pos,
     !.state = IF r.awaits THEN "waiting" ELSE "responded",
     !.wakeAt = 0,
     !.handledAt = @ \o [i \in 1..(r.pos - from + (IF r.awaits THEN 1 ELSE 0))
                           |-> now]]

\* Request k after the loop ran from the step at from: it awaits the timer
\* of the wait step at r.pos, or has responded (line 364).
Progress(req, from, r) ==
  [req EXCEPT
     !.pos = r.pos,
     !.state = IF r.awaits THEN "waiting" ELSE "responded",
     !.wakeAt = IF r.awaits THEN now + r.delay ELSE 0,
     !.handledAt = @ \o [i \in 1..(r.pos - from + (IF r.awaits THEN 1 ELSE 0))
                           |-> now]]

\* parseCommand(text) in a handler for bot b: the call on the process-wide
\* context, and (history) the same call on the context of b's own.
ParseFor(b, text, endpoint) ==
  /\ received < MaxRequests
  /\ received' = received + 1
  /\ \E r \in {parseCommandStructured(text, context)} :
     \E own \in {IF isolated.contexts[b] = context THEN r
                 ELSE parseCommandStructured(text, isolated.contexts[b])} :
      /\ call' = endpoint
      /\ botId' = b
      /\ utterance' = text
      /\ ctxBefore' = context
      /\ context' = r.ctx
      /\ normalized' = r.normalized
      /\ steps' = r.steps
      /\ commands' = r.commands
      /\ flat' = Lower(r.commands)
      /\ isolated' = [contexts |-> [isolated.contexts EXCEPT ![b] = own.ctx],
                      flat |-> Lower(own.commands)]
      /\ UNCHANGED quantity

\* POST /api/bots/:id/nlp with a text: the response is the parse result.
PostNlp(b, text) ==
  /\ ParseFor(b, text, "nlp")
  /\ UNCHANGED <<now, requests, published, bots>>

\* POST /api/bots/:botId/commands with a command text: parse, then the loop
\* up to its first await.
PostCommands(b, text) ==
  /\ ParseFor(b, text, "commands")
  /\ \E k \in {Len(requests) + 1} :
     \E r \in {RunSteps(StepsOf(flat'), 1)} :
        /\ published' = published \o Messages(k, b, r.sent)
        /\ requests' =
             Append(requests,
                    Progress([botId |-> b, steps |-> StepsOf(flat'), pos |-> 1,
                              state |-> "waiting", wakeAt |-> 0,
                              handledAt |-> <<>>], 1, r))
  /\ UNCHANGED <<now, bots>>

\* The timer of request k fires (not before its delay has passed): the
\* await of line 354 returns and the loop goes on with the next step.
TimerFires(k) ==
  /\ requests[k].state = "waiting"
  /\ now >= requests[k].wakeAt
  /\ \E r \in {RunSteps(requests[k].steps, requests[k].pos + 1)} :
        /\ published' =
             published \o Messages(k, requests[k].botId, r.sent)
        /\ requests' =
             [requests EXCEPT
                ![k] = Progress(requests[k], requests[k].pos + 1, r)]
  /\ UNCHANGED <<context, ctxBefore, utterance, call, normalized, quantity,
                 steps, commands, flat, botId, received, now, isolated,
                 bots>>

\* The times at which a timer that has not fired yet may fire.
Deadlines ==
  { requests[k].wakeAt : k \in { j \in 1..Len(requests) :
                                   requests[j].state = "waiting" } }

\* Time passes, up to a deadline.
Tick ==
  /\ \E t \in Deadlines : t > now /\ now' = t
  /\ UNCHANGED <<context, ctxBefore, utterance, call, normalized, quantity,
                 steps, commands, flat, botId, received, requests,
                 published, isolated, bots>>

NextServer ==
  \/ \E b \in Bots : \E text \in ServerTexts : PostNlp(b, text)
  \/ \E b \in Bots : \E text \in ServerTexts : PostCommands(b, text)
  \/ \E k \in 1..Len(requests) : TimerFires(k)
  \/ Tick

SpecServer == Init /\ [][NextServer]_vars

----------------------------------------------------------------------------
(* The bot registry (part_001): upsertBot, lines 55-72, the MQTT handler,  *)
(* lines 88-118, the offline sweep, lines 197-206, and the REST endpoints  *)
(* of lines 231-335                                                        *)

\* setInterval(..., 5000)
SweepPeriod == 5000

\* now - bot.lastSeen > 10000
OfflineAfter == 10000

\* How long one run of the server is followed, in ms.
MaxClock == 15000

\* The /commands requests one run of the registry receives.
MaxCommands == 1

\* The status a message may carry.
Statuses == {"online", "offline"}

\* The license key an operator enters.
LicenseKeys == {"key"}

\* A key of an object that is undefined or absent.
Undefined == "undefined"

\* The bot upsertBot creates for an id the Map does not hold (lines 55-63);
\* name and gps are left out, lastSeen is set by every upsert.
NewBot ==
  [verified |-> FALSE, connected |-> FALSE, active |-> FALSE,
   status |-> "offline", lastSeen |-> 0, licenseKey |-> Undefined]

\* bots.set(id, bot)
SetBot(map, id, bot) ==
  [b \in DOMAIN map \cup {id} |-> IF b = id THEN bot ELSE map[b]]

\* upsertBot(id, updates), lines 55-72; updates holds the keys whose value
\* is not undefined.
upsertBot(id, updates) ==
  LET bot == IF id \in DOMAIN bots THEN bots[id] ELSE NewBot
      updated == [f \in DOMAIN bot |->
                    IF f \in DOMAIN updates THEN updates[f] ELSE bot[f]]
  IN  SetBot(bots, id, [updated EXCEPT !.lastSeen = now])

\* What the registry actions leave alone.
Elsewhere ==
  <<context, ctxBefore, utterance, call, normalized, quantity, steps,
    commands, flat, botId, received, requests, published, isolated>>

\* A message on bot/announce for id: ignored for a known bot, else the bot
\* is added with msg.status || "online" (lines 101-104).
Announce(id, st) ==
  /\ id \notin DOMAIN bots
  /\ bots' = upsertBot(id, [status |-> IF st = Undefined THEN "online"
                                       ELSE st])
  /\ UNCHANGED <<Elsewhere, now>>

\* A message on bot/<id>/status (lines 105-106).
StatusMessage(id, st) ==
  /\ bots' = upsertBot(id, [status |-> st])
  /\ UNCHANGED <<Elsewhere, now>>

\* A message on bot/<id>/verified (lines 107-108).
VerifiedMessage(id, v) ==
  /\ bots' = upsertBot(id, [verified |-> v])
  /\ UNCHANGED <<Elsewhere, now>>

\* A message on bot/<id>/gps with a position (lines 109-114): of the fields
\* kept here it touches lastSeen only.
GpsMessage(id) ==
  /\ bots' = upsertBot(id, [f \in {} |-> Undefined])
  /\ UNCHANGED <<Elsewhere, now>>

\* The callback of setInterval (lines 197-206), SweepPeriod after the last
\* one: a bot that is online and was not seen for more than OfflineAfter
\* goes offline.
OfflineSweep ==
  /\ now + SweepPeriod <= MaxClock
  /\ now' = now + SweepPeriod
  /\ bots' = [b \in DOMAIN bots |->
                IF bots[b].status = "online"
                   /\ now' - bots[b].lastSeen > OfflineAfter
                  THEN [bots[b] EXCEPT !.status = "offline"]
                  ELSE bots[b]]
  /\ UNCHANGED Elsewhere

\* POST /api/bots/:id/verify (lines 231-263) for a known bot: the key goes
\* to the bot, whose answer arrives as a VerifiedMessage; when the handler
\* sees bot.verified within its 3 s it stores the key, else it answers 400.
Verify(id, key) ==
  /\ id \in DOMAIN bots
  /\ bots' = IF bots[id].verified
               THEN SetBot(bots, id, [bots[id] EXCEPT !.licenseKey = key])
               ELSE bots
  /\ UNCHANGED <<Elsewhere, now>>

\* POST /api/bots/:id/connect (lines 280-290).
Connect(id) ==
  /\ id \in DOMAIN bots
  /\ bots[id].verified
  /\ bots[id].status = "online"
  /\ bots' = SetBot(bots, id, [bots[id] EXCEPT !.connected = TRUE])
  /\ UNCHANGED <<Elsewhere, now>>

\* POST /api/bots/:id/disconnect (lines 292-301).
Disconnect(id) ==
  /\ id \in DOMAIN bots
  /\ bots' = SetBot(bots, id, [bots[id] EXCEPT !.connected = FALSE,
                                               !.active = FALSE])
  /\ UNCHANGED <<Elsewhere, now>>

\* DELETE /api/bots/:id/license (lines 304-315).
RemoveLicense(id) ==
  /\ id \in DOMAIN bots
  /\ bots' = SetBot(bots, id, [bots[id] EXCEPT !.verified = FALSE,
                                               !.connected = FALSE,
                                               !.active = FALSE,
                                               !.licenseKey = Undefined])
  /\ UNCHANGED <<Elsewhere, now>>

\* POST /api/bots/:id/active (lines 318-335): every bot is unset, then id
\* is set.
SetActive(id) ==
  /\ id \in DOMAIN bots
  /\ bots[id].verified /\ bots[id].connected /\ bots[id].status = "online"
  /\ bots' = [b \in DOMAIN bots |-> [bots[b] EXCEPT !.active = (b = id)]]
  /\ UNCHANGED <<Elsewhere, now>>

\* The registry under MQTT messages, the sweep and the REST endpoints, and
\* the emergency stop sent to any bot id.
NextRegistry ==
  \/ \E id \in Bots : \E st \in Statuses \cup {Undefined} : Announce(id, st)
  \/ \E id \in Bots : \E st \in Statuses : StatusMessage(id, st)
  \/ \E id \in Bots : \E v \in BOOLEAN : VerifiedMessage(id, v)
  \/ \E id \in Bots : GpsMessage(id)
  \/ OfflineSweep
  \/ \E id \in Bots : \E key \in LicenseKeys : Verify(id, key)
  \/ \E id \in Bots : Connect(id)
  \/ \E id \in Bots : Disconnect(id)
  \/ \E id \in Bots : RemoveLicense(id)
  \/ \E id \in Bots : SetActive(id)
  \/ \E id \in Bots : Len(requests) < MaxCommands /\ PostCommands(id, Panic)

SpecRegistry == Init /\ [][NextRegistry]_vars

----------------------------------------------------------------------------
(* Properties                                                              *)

Returned == call = "parseCommandLegacy"

AllUnknown(cmds) == \A i \in 1..Len(cmds) : cmds[i].action = "unknown"

\* C1: context monotonicity.  No clause that parseClause classifies as
\* unknown changes a field of the context, and a call whose descriptors are
\* all unknown leaves lastDirection, lastSpeedPct, lastHeadingDeg and
\* lastTurnStyle as they were before the call.
C1_ContextMonotone ==
  Returned =>
    /\ \A i \in 1..Len(steps) :
         (\E j \in 1..Len(steps[i].out) : steps[i].out[j].action = "unknown")
           => steps[i].ctxOut = steps[i].ctxIn
    /\ AllUnknown(commands) =>
         /\ context.lastDirection = ctxBefore.lastDirection
         /\ context.lastSpeedPct = ctxBefore.lastSpeedPct
         /\ context.lastHeadingDeg = ctxBefore.lastHeadingDeg
         /\ context.lastTurnStyle = ctxBefore.lastTurnStyle

\* An all-unknown call made on a context that holds a direction, a speed and
\* a heading other than the initial ones.
C1_Witness ==
  /\ Returned
  /\ Len(commands) >= 1
  /\ AllUnknown(commands)
  /\ ctxBefore.lastDirection = "forward"
  /\ ctxBefore.lastSpeedPct = Milli(45)
  /\ ctxBefore.lastHeadingDeg = Milli(90)

\* C2: for the scenario sentence parseCommandStructured returns exactly
\* four descriptors: move/forward with distance 2 m and style normal,
\* turn/right with style normal, rotate/cw with 90 degrees, move/stop.
C2_ScenarioFourDescriptors ==
  (Returned /\ utterance = Scenario) =>
    /\ Len(commands) = 4
    /\ commands[1].action = "move" /\ commands[1].type = "forward"
    /\ "distanceM" \in DOMAIN commands[1]
    /\ commands[1].distanceM = Milli(2) /\ commands[1].style = "normal"
    /\ commands[2].action = "turn" /\ commands[2].direction = "right"
    /\ commands[2].style = "normal"
    /\ commands[3].action = "rotate" /\ commands[3].direction = "cw"
    /\ commands[3].value = Milli(90)
    /\ commands[4].action = "move" /\ commands[4].type = "stop"

\* What the scenario sentence returns: seven descriptors, an unknown one
\* for each bare keyword clause "move", "turn", "rotate" before the
\* descriptor of the instruction.
C2_SevenDescriptors ==
  /\ Returned /\ utterance = Scenario
  /\ Len(commands) = 7
  /\ \A i \in {1, 3, 5} : commands[i].action = "unknown"
  /\ commands[1].raw = <<"move">> /\ commands[3].raw = <<"turn">>
  /\ commands[5].raw = <<"rotate">>
  /\ commands[2].action = "move" /\ commands[4].action = "turn"
  /\ commands[6].action = "rotate" /\ commands[7].action = "move"

ScenarioTokens ==
  << <<"move", ".", "forward">>, <<"move", ".", "distance", ":", "2", "m">>,
     <<"turn", ".", "right">>, <<"rotate", ".", "cw", ".", "deg", ":", "90">>,
     <<"move", ".", "stop">> >>

\* The tokens of the clauses from the k-th on, clause after clause.
RECURSIVE TokensOfSteps(_)
TokensOfSteps(k) ==
  IF k > Len(steps) THEN <<>>
  ELSE LowerAll(steps[k].out) \o TokensOfSteps(k + 1)

\* C3: the lowered tokens of an utterance are the tokens of its clauses in
\* utterance order (followed by those of the "again" move, if one was
\* added); the scenario sentence lowers to exactly move.forward,
\* move.distance:2m, turn.right, rotate.cw.deg:90, move.stop.
C3_TokensInOrder ==
  Returned =>
    /\ flat.kind = "array" =>
         flat.items = TokensOfSteps(1)
                      \o (IF Len(commands) > 0
                             /\ commands[Len(commands)].raw = <<"again">>
                             /\ commands[Len(commands)].action = "move"
                            THEN LowerOne(commands[Len(commands)]) ELSE <<>>)
    /\ utterance = Scenario =>
         flat = [kind |-> "array", items |-> ScenarioTokens]

\* The scenario sentence parsed in a session that has already turned the
\* heading and holds a direction.
C3_Witness ==
  /\ Returned /\ utterance = Scenario
  /\ ctxBefore.lastDirection # Null
  /\ ctxBefore.lastHeadingDeg # 0
  /\ Len(flat.items) = 5

TwoMinutesTokens ==
  << <<"move", ".", "forward">>, <<"move", ".", "duration", ":", "120000">>,
     <<"wait", ":", "120000">>, <<"move", ".", "stop">> >>

\* C4: "move forward for 2 minutes" lowers to move.forward,
\* move.duration:120000, wait:120000, move.stop and nothing else: one wait
\* token, so that the delay honoured equals the duration of the move.
C4_TimedMoveFourTokens ==
  (Returned /\ utterance = TwoMinutes) =>
    flat = [kind |-> "array", items |-> TwoMinutesTokens]

\* The sum of the delays of the wait tokens from the k-th token on.
RECURSIVE TotalWait(_, _)
TotalWait(tokens, k) ==
  IF k > Len(tokens) THEN 0
  ELSE (IF tokens[k][1] = "wait"
          THEN CHOOSE n \in {120000, 5000} : ToString(n) = tokens[k][3]
        ELSE 0) + TotalWait(tokens, k + 1)

\* What "move forward for 2 minutes" lowers to: the four tokens and, after
\* them, wait:120000 and move.stop once more, so 240000 ms of waiting.
C4_SixTokens ==
  /\ Returned /\ utterance = TwoMinutes
  /\ flat.kind = "array"
  /\ flat.items = TwoMinutesTokens
                  \o << <<"wait", ":", "120000">>, <<"move", ".", "stop">> >>
  /\ TotalWait(flat.items, 1) = 2 * 120000

\* The descriptors the lowering gives no token / at least one token.
LowersUnknownToNothing ==
  \A i \in 1..Len(commands) :
     commands[i].action = "unknown" => LowerOne(commands[i]) = <<>>

LowersKnownToTokens ==
  \A i \in 1..Len(commands) :
     commands[i].action # "unknown" => Len(LowerOne(commands[i])) >= 1

\* C5 (as amended): every non-unknown descriptor lowers to at least one
\* token and an unknown descriptor to none; when no token is emitted (empty
\* or all-unknown list) parseCommandLegacy returns the bare string
\* "unknown", not a list, and otherwise the array of the tokens.
C5_LoweringTotal ==
  Returned =>
    /\ LowersUnknownToNothing
    /\ LowersKnownToTokens
    /\ AllUnknown(commands) =>
         flat = [kind |-> "string", text |-> <<"unknown">>]
    /\ ~AllUnknown(commands) =>
         flat.kind = "array" /\ Len(flat.items) >= 1

\* A call whose descriptors are all unknown, and there is one at least.
C5_Witness ==
  /\ Returned
  /\ Len(commands) >= 1
  /\ AllUnknown(commands)
  /\ flat.kind = "string"

\* C5 as stated: when no token is emitted the result is the one-element
\* list ["unknown"].
C5_UnknownList ==
  Returned =>
    /\ LowersUnknownToNothing
    /\ LowersKnownToTokens
    /\ AllUnknown(commands) =>
         flat = [kind |-> "array", items |-> << <<"unknown">> >>]

\* C6 (as amended): when the normalized utterance holds the word "again",
\* no clause classifies to a known command and the context holds a
\* direction d, the call returns the unknown descriptors of its clauses
\* followed by one move of type d at confidence 0.5, and leaves the context
\* as it was; for "again" itself that is two descriptors, the unknown one of
\* the clause "again" and the move, and the lowered result is move.d alone.
C6_AgainAppendsMove ==
  (/\ Returned
   /\ Test(normalized, {<<"again">>})
   /\ ctxBefore.lastDirection # Null
   /\ \A i \in 1..Len(steps) : AllUnknown(steps[i].out)) =>
    /\ Len(commands) = Len(steps) + 1
    /\ \A i \in 1..Len(steps) : commands[i].action = "unknown"
    /\ commands[Len(commands)] =
         [action |-> "move", type |-> ctxBefore.lastDirection,
          relative |-> TRUE, confidence |-> LOW_CONFIDENCE,
          raw |-> <<"again">>]
    /\ context = ctxBefore
    /\ utterance = Again =>
         /\ Len(commands) = 2
         /\ commands[1].raw = Again
         /\ flat = [kind |-> "array",
                    items |-> << <<"move", ".", ctxBefore.lastDirection>> >>]

\* "again" said in a session whose last direction is forward.
C6_Witness ==
  /\ Returned /\ utterance = Again
  /\ ctxBefore.lastDirection = "forward"
  /\ Len(commands) = 2
  /\ commands[2].type = "forward"

\* C6 as stated: for "again" with lastDirection = d the result is the
\* single descriptor move/d at confidence 0.5.
C6_SingleMove ==
  (Returned /\ utterance = Again /\ ctxBefore.lastDirection # Null) =>
    /\ Len(commands) = 1
    /\ commands[1].action = "move"
    /\ commands[1].type = ctxBefore.lastDirection
    /\ commands[1].confidence = LOW_CONFIDENCE

\* Every descriptor returned is an unknown one at confidence 0.5, below the
\* generic default, and the context and the lowered result are those of a
\* call that recognised nothing.
NothingRecognised ==
  /\ \A i \in 1..Len(commands) :
       /\ commands[i].action = "unknown"
       /\ commands[i].confidence = LOW_CONFIDENCE
       /\ commands[i].confidence < DEFAULT_CONFIDENCE
  /\ context = ctxBefore
  /\ flat = [kind |-> "string", text |-> <<"unknown">>]

\* C7 (as amended): when no clause classifies to a known command and the
\* "again" fallback does not apply, the call returns one unknown descriptor
\* for each clause (two for "hello and robot", none for a connector alone),
\* each at confidence 0.5 < 0.85 and with the clause as its raw text, the
\* context is unchanged, and the lowered result is the single unknown
\* signal.
C7_UnknownPerClause ==
  (Returned /\ ~SomeKnown(commands)) =>
    /\ Len(commands) = Len(steps)
    /\ \A i \in 1..Len(steps) : commands[i].raw = steps[i].clause
    /\ NothingRecognised

\* Two clauses, none of them recognised, on a context that holds a
\* direction.
C7_Witness ==
  /\ Returned /\ ~SomeKnown(commands)
  /\ Len(steps) = 2 /\ Len(commands) = 2
  /\ ctxBefore.lastDirection = "forward"

\* C7 as stated: such a call returns exactly one descriptor.
C7_SingleUnknown ==
  (Returned /\ ~SomeKnown(commands)) =>
    /\ Len(commands) = 1
    /\ NothingRecognised

\* C9: urduToEnglish(urduToEnglish(U)) = urduToEnglish(U) for every text U
\* of lexicon terms, ASCII words and spaces: a second pass finds nothing to
\* substitute.
C9_NormalizeIdempotent ==
  call = "urduToEnglish" => urduToEnglish(normalized) = normalized

\* A text in which one pass substituted a lexicon term and left another
\* one in place.
C9_Witness ==
  /\ call = "urduToEnglish"
  /\ normalized # utterance
  /\ \E i \in 1..Len(normalized) : normalized[i] \in UrduAtoms

\* The places of clause t where a number of one to three digits stands,
\* followed (after any spaces) by % or by the word percent.
PercentNumbers(t) ==
  { i \in 1..Len(t) :
      /\ IsDigits(t[i]) /\ Len(t[i]) <= 3
      /\ (i = 1 \/ ~IsWordAtom(t[i - 1]))
      /\ \E j \in (i + 1)..Len(t) :
           /\ \A k \in (i + 1)..(j - 1) : t[k] = Sp
           /\ \/ t[j] = "%"
              \/ t[j] = "percent" /\ (j = Len(t) \/ ~IsWordAtom(t[j + 1])) }

\* C10: for every clause that holds a number NN of one to three digits
\* followed by % or the word percent, extractQuantity returns
\* clamp(NN, 0, 100) percent (NN the leftmost such number), whatever other
\* numerals and unit words the clause holds; "set speed 45%" gives 45
\* percent.
C10_PercentFirst ==
  call = "extractQuantity" =>
    /\ PercentNumbers(utterance) # {} =>
         LET nn == ParseInt(utterance[Min(PercentNumbers(utterance))])
         IN  quantity = [hasValue |-> TRUE,
                         value |-> IF nn > 100 THEN Milli(100) ELSE Milli(nn),
                         unit |-> "%"]
    /\ utterance = SetSpeed =>
         quantity = [hasValue |-> TRUE, value |-> Milli(45), unit |-> "%"]

\* A clause with a numeral and the unit m before the percent number.
C10_Witness ==
  /\ call = "extractQuantity"
  /\ PercentNumbers(utterance) # {}
  /\ \E i \in 1..(Min(PercentNumbers(utterance)) - 2) :
       IsDigits(utterance[i]) /\ utterance[i + 1] = "m"
  /\ quantity.unit = "%"

\* The clauses of the call, by their place in the utterance.
Clauses == 1..Len(steps)

\* The quantity of the i-th clause.
QuantityOf(i) == extractQuantity(steps[i].clause)

\* The i-th clause has no emergency-stop cue and no stop cue.
PastStop(i) == ~estopCue(steps[i].clause) /\ ~stop(steps[i].clause)

CanonicalUnits == {"%", "s", "min", "m", "cm", "deg"}

\* C12: the unit extractQuantity returns is absent or one of the six
\* canonical units; every unit spelling the generic pattern accepts is
\* mapped to its canonical unit, and a bare numeral gives its value with
\* no unit.
C12_UnitCanonical ==
  call = "extractQuantity" =>
    /\ quantity.unit \in CanonicalUnits \cup {Null}
    /\ \A u \in DOMAIN UnitSpellings :
         utterance = <<"5", Sp, u>> =>
           quantity = [hasValue |-> TRUE, value |-> Milli(5),
                       unit |-> UnitSpellings[u]]
    /\ utterance = <<"5">> =>
         quantity = [hasValue |-> TRUE, value |-> Milli(5), unit |-> Null]

\* What "5 centimeters" gives: the unit text as it was written, which is
\* neither absent nor canonical.
C12_CentimetersKept ==
  /\ call = "extractQuantity"
  /\ utterance = <<"5", Sp, "centimeters">>
  /\ quantity = [hasValue |-> TRUE, value |-> Milli(5),
                 unit |-> "centimeters"]

Responded == call \in {"nlp", "commands"}

\* C13: the parse result returned for a bot's utterance is the one its
\* utterances give on a Context Memory of that bot's own: it does not
\* depend on what was parsed for another bot.
C13_SessionsIsolated == Responded => flat = isolated.flat

\* What happens: "again" sent for bot B, which never set a direction,
\* replays the direction of a move sent for bot A.
C13_ReplaysOtherBot ==
  /\ Responded /\ botId = "B" /\ utterance = Again
  /\ isolated.contexts["B"].lastDirection = Null
  /\ isolated.flat = [kind |-> "string", text |-> <<"unknown">>]
  /\ flat = [kind |-> "array", items |-> << <<"move", ".", "forward">> >>]

\* The steps of request req handled so far that are no wait step, in order.
RECURSIVE SentUpTo(_, _)
SentUpTo(req, n) ==
  IF n = 0 THEN <<>>
  ELSE SentUpTo(req, n - 1)
       \o (IF IsWait(req.steps[n]) THEN <<>>
           ELSE << [index |-> n, command |-> req.steps[n]] >>)

\* The messages published for request k, in the order of publication.
RECURSIVE PublishedFor(_, _)
PublishedFor(k, n) ==
  IF n = 0 THEN <<>>
  ELSE PublishedFor(k, n - 1)
       \o (IF published[n].request = k
             THEN << [index |-> published[n].index,
                      command |-> published[n].command] >>
           ELSE <<>>)

C15_UnknownNotPublished ==
  \A i \in 1..Len(published) : published[i].command # <<"unknown">>

\* What happens: the text lowers to the string "unknown", the dispatcher
\* wraps it into a one-step list and publishes it to the bot's topic.
C15_UnknownPublished ==
  /\ call = "commands"
  /\ flat = [kind |-> "string", text |-> <<"unknown">>]
  /\ published # <<>>
  /\ published[Len(published)] =
       [topic |-> CommandTopic(botId), command |-> <<"unknown">>,
        request |-> Len(requests), index |-> 1, at |-> now]
  /\ requests[Len(requests)].state = "responded"

\* The rule of the cascade, by its place in the fixed order, whose
\* descriptors out are: 1 safety, 2 stop, 3 speed, 4 timed move, 5 distance
\* move, 6 rotate, 7 turn, 8 cardinal move, 9 camera and accessories,
\* 10 fallback.
RuleOf(out) ==
  IF Len(out) = 3 THEN 4
  ELSE IF out[1].action = "safety" THEN 1
  ELSE IF out[1].action = "move" /\ out[1].type = "stop" THEN 2
  ELSE IF out[1].action = "speed" THEN 3
  ELSE IF out[1].action = "move" /\ "distanceM" \in DOMAIN out[1] THEN 5
  ELSE IF out[1].action = "rotate" THEN 6
  ELSE IF out[1].action = "turn" THEN 7
  ELSE IF out[1].action = "move" THEN 8
  ELSE IF out[1].action = "unknown" THEN 10
  ELSE 9

\* The condition of the k-th rule on the clause raw.
RuleMatches(k, raw) ==
  CASE k = 1 -> estopCue(raw)
    [] k = 2 -> stop(raw)
    [] k = 3 -> SpeedMatches(raw, extractQuantity(raw))
    [] k = 4 -> TimedMatches(raw, extractQuantity(raw))
    [] k = 5 -> DistanceMatches(raw, extractQuantity(raw))
    [] k = 6 -> RotateMatches(raw, extractQuantity(raw))
    [] k = 7 -> TurnMatches(raw)
    [] k = 8 -> CardinalMatches(raw)
    [] k = 9 -> AccessoryHits(raw) # {}
    [] OTHER -> TRUE

\* The Context fields the k-th rule writes.
FieldsOf(k) ==
  CASE k \in {2, 4, 5, 7, 8} -> {"lastDirection"}
    [] k = 3 -> {"lastSpeedPct"}
    [] k = 6 -> {"lastHeadingDeg"}
    [] OTHER -> {}

\* C16: each clause is classified by the first rule that matches, in the
\* order safety, stop, speed, timed move, distance move, rotate, turn,
\* cardinal move, accessory, fallback; only that rule's descriptors are
\* emitted and only its Context fields are written.  So a stop cue with a
\* direction cue gives move/stop alone, a turn cue with left/right and a
\* quantity in meters gives a distance move, and a turn or sharp cue with
\* left/right gives a turn.
C16_FirstRuleWins ==
  Returned =>
    \A i \in Clauses :
      LET raw == steps[i].clause
          k   == RuleOf(steps[i].out)
      IN  /\ Len(steps[i].out) \in {1, 3}
          /\ RuleMatches(k, raw)
          /\ \A j \in 1..(k - 1) : ~RuleMatches(j, raw)
          /\ \A f \in DOMAIN steps[i].ctxIn \ FieldsOf(k) :
               steps[i].ctxOut[f] = steps[i].ctxIn[f]
          /\ (stop(raw) /\ DirOf(raw) # Null /\ ~estopCue(raw)) =>
               /\ Len(steps[i].out) = 1
               /\ steps[i].out[1].action = "move"
               /\ steps[i].out[1].type = "stop"
          /\ (turn(raw) /\ (left(raw) \/ right(raw)) /\ ~stop(raw)
              /\ ~estopCue(raw) /\ extractQuantity(raw).hasValue
              /\ extractQuantity(raw).unit = "m") => k = 5
          /\ ((turn(raw) \/ sharp(raw)) /\ (left(raw) \/ right(raw))
              /\ \A j \in 1..6 : ~RuleMatches(j, raw)) =>
               steps[i].out[1].action = "turn"

\* "turn left 2 m": the clause has a turn cue, a left cue and a quantity in
\* meters, and is a distance move.
C16_Witness ==
  /\ Returned /\ utterance = TurnLeftMeters
  /\ \E i \in Clauses :
       /\ turn(steps[i].clause) /\ left(steps[i].clause)
       /\ steps[i].out[1].action = "move"
       /\ steps[i].out[1].type = "left"
       /\ steps[i].out[1].distanceM = Milli(2)

\* The clause has a cue of another rule: stop, a direction, a speed word or
\* an accessory.
OtherCues(raw) ==
  \/ stop(raw) \/ DirOf(raw) # Null \/ speedWord(raw)
  \/ AccessoryHits(raw) # {}

\* C17: a clause with an emergency-stop cue (emergency stop, panic, kill
\* switch) gives exactly one descriptor, safety/estop at confidence 0.95,
\* whatever other cues it holds, leaves every Context field as it was, and
\* lowers to the single token safety.estop.
C17_SafetyRule ==
  Returned =>
    \A i \in Clauses :
      estopCue(steps[i].clause) =>
        /\ steps[i].out = << [action |-> "safety", type |-> "estop",
                              confidence |-> 95,
                              raw |-> Trim(steps[i].clause)] >>
        /\ steps[i].ctxOut = steps[i].ctxIn
        /\ LowerAll(steps[i].out) = << <<"safety", ".", "estop">> >>

\* A clause with an emergency-stop cue and a cue of another rule, parsed on
\* a context that holds a direction.
C17_Witness ==
  /\ Returned /\ ctxBefore.lastDirection = "left"
  /\ \E i \in Clauses :
       /\ estopCue(steps[i].clause) /\ OtherCues(steps[i].clause)
       /\ steps[i].out[1].action = "safety"

\* C18: a clause with a stop, halt or freeze cue and no emergency-stop cue
\* gives exactly one descriptor, move/stop at confidence 0.95, and leaves
\* lastDirection absent and lastSpeedPct, lastHeadingDeg and lastTurnStyle
\* as they were.
C18_StopRule ==
  Returned =>
    \A i \in Clauses :
      (stop(steps[i].clause) /\ ~estopCue(steps[i].clause)) =>
        /\ steps[i].out = << [action |-> "move", type |-> "stop",
                              confidence |-> 95,
                              raw |-> Trim(steps[i].clause)] >>
        /\ steps[i].ctxOut.lastDirection = Null
        /\ steps[i].ctxOut.lastSpeedPct = steps[i].ctxIn.lastSpeedPct
        /\ steps[i].ctxOut.lastHeadingDeg = steps[i].ctxIn.lastHeadingDeg
        /\ steps[i].ctxOut.lastTurnStyle = steps[i].ctxIn.lastTurnStyle

\* A clause with a stop cue and a cue of a later rule, run on a context
\* that holds a direction, a speed and a heading.
C18_Witness ==
  /\ Returned
  /\ \E i \in Clauses :
       /\ stop(steps[i].clause) /\ ~estopCue(steps[i].clause)
       /\ DirOf(steps[i].clause) # Null
       /\ steps[i].ctxIn.lastDirection # Null
       /\ steps[i].ctxIn.lastSpeedPct = Milli(45)
       /\ steps[i].ctxIn.lastHeadingDeg = Milli(90)
       /\ steps[i].out[1].type = "stop"

\* The value of the last speed/set descriptor of cmds, or before when cmds
\* holds none.
RECURSIVE LastSpeedSet(_, _)
LastSpeedSet(cmds, before) ==
  IF cmds = <<>> THEN before
  ELSE IF cmds[Len(cmds)].action = "speed" /\ cmds[Len(cmds)].type = "set"
    THEN cmds[Len(cmds)].value
  ELSE LastSpeedSet(SubSeq(cmds, 1, Len(cmds) - 1), before)

\* The descriptors of the i-th clause that are speed/set.
SpeedSets(i) ==
  { j \in 1..Len(steps[i].out) :
      steps[i].out[j].action = "speed" /\ steps[i].out[j].type = "set" }

\* lastSpeedPct is a percentage, and every speed/set descriptor carries the
\* quantity of its clause clamped to [0, 100].
SpeedInRange ==
  /\ context.lastSpeedPct \in 0..Milli(100)
  /\ call = "none" => context.lastSpeedPct = Milli(50)
  /\ Returned =>
       \A i \in Clauses : \A j \in SpeedSets(i) :
         /\ steps[i].out[j].value \in 0..Milli(100)
         /\ QuantityOf(i).hasValue
         /\ steps[i].out[j].value = clamp(QuantityOf(i).value, 0, Milli(100))

\* A call leaves in lastSpeedPct the value of the last speed/set descriptor
\* it emitted, and the value it found when it emitted none.
SpeedFollowsDescriptors ==
  context'.lastSpeedPct = LastSpeedSet(commands', context.lastSpeedPct)

\* C19: after any sequence of parse calls lastSpeedPct lies in [0, 100] and
\* is the value of the most recently emitted speed/set descriptor (50 when
\* none was emitted); every speed/set descriptor carries a value in
\* [0, 100], the quantity of its clause clamped to that range.
C19_SpeedBound == []SpeedInRange /\ [][SpeedFollowsDescriptors]_vars

\* "speed 250" parsed after a call that had set another speed: the
\* descriptor and lastSpeedPct hold 100.
C19_Witness ==
  /\ Returned /\ utterance = Words(<<"speed", "250">>)
  /\ ctxBefore.lastSpeedPct = Milli(30)
  /\ context.lastSpeedPct = Milli(100)
  /\ \E i \in Clauses : \E j \in SpeedSets(i) :
       /\ QuantityOf(i).value = Milli(250)
       /\ steps[i].out[j].value = Milli(100)

\* The i-th clause has the cue "for", a quantity in seconds or minutes and
\* a direction cue, and neither the safety, the stop nor the speed rule
\* takes it.
IsTimedMove(i) ==
  /\ PastStop(i)
  /\ ~SpeedMatches(steps[i].clause, QuantityOf(i))
  /\ forCue(steps[i].clause)
  /\ QuantityOf(i).hasValue
  /\ QuantityOf(i).unit \in {"s", "min"}
  /\ DirOf(steps[i].clause) # Null

\* The duration of the quantity of the i-th clause, in milliseconds.
DurationOf(i) ==
  IF QuantityOf(i).unit = "min" THEN 60 * QuantityOf(i).value
  ELSE QuantityOf(i).value

\* C20: a clause with the cue "for", a quantity in seconds or minutes and a
\* direction cue (no safety, stop or speed match) gives exactly three
\* descriptors in this order: the move in that direction with durationMs,
\* a wait of the same durationMs, move/stop; lastDirection becomes the
\* direction.  Every other clause gives exactly one descriptor.
C20_TimedMoveBracket ==
  Returned =>
    \A i \in Clauses :
      /\ IsTimedMove(i) =>
           /\ Len(steps[i].out) = 3
           /\ steps[i].out[1].action = "move"
           /\ steps[i].out[1].type = DirOf(steps[i].clause)
           /\ steps[i].out[1].durationMs = DurationOf(i)
           /\ steps[i].out[2].action = "wait"
           /\ steps[i].out[2].unit = "ms"
           /\ steps[i].out[2].value = steps[i].out[1].durationMs
           /\ steps[i].out[3].action = "move"
           /\ steps[i].out[3].type = "stop"
           /\ steps[i].ctxOut.lastDirection = DirOf(steps[i].clause)
      /\ ~IsTimedMove(i) => Len(steps[i].out) = 1

\* "move forward for 2 minutes" parsed on a context that holds another
\* direction: the clause gives the bracket of 120000 ms.
C20_Witness ==
  /\ Returned /\ utterance = TwoMinutes
  /\ \E i \in Clauses :
       /\ IsTimedMove(i)
       /\ steps[i].ctxIn.lastDirection = "left"
       /\ Len(steps[i].out) = 3
       /\ steps[i].out[2].value = 120000

\* The degrees of the clockwise rotate descriptors of cmds minus those of
\* the counterclockwise ones.
RECURSIVE HeadingDelta(_)
HeadingDelta(cmds) ==
  IF cmds = <<>> THEN 0
  ELSE (IF Head(cmds).action # "rotate" THEN 0
        ELSE IF Head(cmds).direction = "cw" THEN Head(cmds).value
        ELSE 0 - Head(cmds).value)
       + HeadingDelta(Tail(cmds))

\* A clause with a rotate or spin cue and a quantity in degrees (that the
\* safety and stop rules do not take) gives one rotate descriptor of that
\* many degrees, counterclockwise with a left cue and clockwise otherwise;
\* before any call the heading is 0.
RotateByCue ==
  /\ call = "none" => context.lastHeadingDeg = 0
  /\ Returned =>
       \A i \in Clauses :
         (/\ PastStop(i)
          /\ rotate(steps[i].clause)
          /\ QuantityOf(i).hasValue
          /\ QuantityOf(i).unit = "deg") =>
           /\ Len(steps[i].out) = 1
           /\ steps[i].out[1].action = "rotate"
           /\ steps[i].out[1].direction =
                (IF left(steps[i].clause) THEN "ccw" ELSE "cw")
           /\ steps[i].out[1].value = QuantityOf(i).value

\* A call adds to lastHeadingDeg the degrees of the clockwise rotate
\* descriptors it emits and subtracts those of the counterclockwise ones.
HeadingAccumulates ==
  context'.lastHeadingDeg = context.lastHeadingDeg + HeadingDelta(commands')

\* C21: a clause with a rotate/spin cue and a quantity in degrees gives a
\* rotate descriptor, counterclockwise with a left cue and clockwise
\* otherwise; after any sequence of parse calls lastHeadingDeg is the sum of
\* the degrees of the clockwise rotate descriptors emitted so far minus
\* that of the counterclockwise ones, from 0, with no wrap-around and no
\* other clause changing it.
C21_HeadingAccumulates == []RotateByCue /\ [][HeadingAccumulates]_vars

\* "rotate left 90 degrees" parsed when the heading is 90: one
\* counterclockwise rotate, and the heading is back at 0.
C21_Witness ==
  /\ Returned /\ utterance = Words(<<"rotate", "left", "90", "degrees">>)
  /\ ctxBefore.lastHeadingDeg = Milli(90)
  /\ context.lastHeadingDeg = 0
  /\ \E i \in Clauses :
       /\ steps[i].out[1].action = "rotate"
       /\ steps[i].out[1].direction = "ccw"

\* The i-th clause holds the accessory word w, no cue of another accessory,
\* and no cue of the safety, stop, speed, rotate, turn or direction rules.
OnlyAccessory(i, w) ==
  /\ Test(steps[i].clause, {<<w>>})
  /\ \A v \in DOMAIN AccessoryWords :
       Test(steps[i].clause, {<<v>>}) => AccessoryWords[v] = AccessoryWords[w]
  /\ \A k \in AccessoryHits(steps[i].clause) :
       /\ AccessoryCues[k].action = AccessoryWords[w].action
       /\ AccessoryCues[k].type = AccessoryWords[w].type
  /\ PastStop(i)
  /\ ~speedWord(steps[i].clause)
  /\ ~rotate(steps[i].clause)
  /\ ~turn(steps[i].clause)
  /\ DirOf(steps[i].clause) = Null

\* C22: a clause that holds one of the words camera, photo, video, zoom,
\* siren, lights, spray, taser and no safety, stop, speed, direction or turn
\* cue gives the one descriptor of that word (camera/photo for camera and
\* photo, camera/record for video, camera/zoom with the quantity or 1 for
\* zoom, siren, lights, spray, taser), never unknown.
C22_AccessoryClassified ==
  Returned =>
    \A i \in Clauses : \A w \in DOMAIN AccessoryWords :
      OnlyAccessory(i, w) =>
        /\ Len(steps[i].out) = 1
        /\ steps[i].out[1].action = AccessoryWords[w].action
        /\ steps[i].out[1].type = AccessoryWords[w].type
        /\ w = "zoom" =>
             steps[i].out[1].value =
               (IF QuantityOf(i).hasValue THEN QuantityOf(i).value
                ELSE Milli(1))

\* "lights on": both clauses hold the word lights, and both are unknown.
C22_LightsUnknown ==
  /\ Returned /\ utterance = Words(<<"lights", "on">>)
  /\ \A i \in Clauses :
       /\ OnlyAccessory(i, "lights")
       /\ steps[i].out[1].action = "unknown"
  /\ flat = [kind |-> "string", text |-> <<"unknown">>]

\* The direction that the descriptors out of one clause leave, d being the
\* one before: a timed, distance or cardinal move and a turn set it, a stop
\* (alone, not the one closing a timed move) clears it.
DirectionAfter(out, d) ==
  IF out[1].action = "move" /\ out[1].type = "stop" THEN Null
  ELSE IF out[1].action = "move" THEN out[1].type
  ELSE IF out[1].action = "turn" THEN out[1].direction
  ELSE d

\* The direction left by the clauses of st from the k-th on.
RECURSIVE DirectionLeft(_, _, _)
DirectionLeft(st, k, d) ==
  IF k > Len(st) THEN d
  ELSE DirectionLeft(st, k + 1, DirectionAfter(st[k].out, d))

\* The descriptors of the clauses of st from the k-th on, in order.
RECURSIVE ClauseDescriptors(_, _)
ClauseDescriptors(st, k) ==
  IF k > Len(st) THEN <<>> ELSE st[k].out \o ClauseDescriptors(st, k + 1)

\* One call: lastDirection follows the directional and stop descriptors of
\* the clauses; a move is appended, once, exactly when the text holds
\* "again", no clause is known and a direction was held, it goes in that
\* direction, and the call then leaves the context as it was.
AgainStep ==
  LET known == ClauseDescriptors(steps', 1)
      applies == /\ Test(normalized', {<<"again">>})
                 /\ AllUnknown(known)
                 /\ context.lastDirection # Null
  IN  /\ context'.lastDirection =
           DirectionLeft(steps', 1, context.lastDirection)
      /\ applies =>
           /\ commands' = Append(known,
                [action |-> "move", type |-> context.lastDirection,
                 relative |-> TRUE, confidence |-> 50, raw |-> Again])
           /\ context' = context
      /\ ~applies => commands' = known

\* C23: a call appends a synthesized move exactly when the utterance holds
\* "again", none of its clauses is a known command and lastDirection is
\* present; at most one per utterance; its direction is the one set by the
\* most recent timed move, distance move, turn or cardinal move that no
\* stop clause followed; the call leaves Context unchanged.  After a stop,
\* "again" synthesizes no move until a new directional command is parsed.
C23_AgainOverCalls ==
  [](call = "none" => context.lastDirection = Null) /\ [][AgainStep]_vars

\* "do it again" after a call that left the direction left: the unknown
\* descriptors and a move left.
C23_Witness ==
  /\ Returned /\ utterance = Words(<<"do", "it", "again">>)
  /\ ctxBefore.lastDirection = "left"
  /\ context = ctxBefore
  /\ commands[Len(commands)].action = "move"
  /\ commands[Len(commands)].type = "left"

\* The pass-1 segments of the normalized text (line 86).
Segments ==
  SplitFrom(Trim(CollapseSpaces(normalized)), 0, 0, Connectors, FALSE)

\* The offsets of seg at which a keyword of line 89 stands.
KeywordOffsets(seg) ==
  { q \in 0..(Len(seg) - 1) : AltAt(seg, q, Keywords) # 0 }

\* The instruction that the keyword at offset q of seg introduces: the
\* keyword and the words up to the next keyword.
Instruction(seg, q) ==
  LET later == { r \in KeywordOffsets(seg) : r > q }
      end   == IF later = {} THEN Len(seg) ELSE Min(later)
  IN  Trim(SubSeq(seg, q + 1, end))

\* C24: for every pass-1 segment that holds an action-verb keyword, the
\* clause of the instruction that the keyword introduces begins with the
\* keyword and runs up to the next keyword, also when the keyword is not
\* the first word; "forward 2 meters turn left" gives the clauses
\* "forward 2 meters" and "turn left", and the second one is a turn.
C24_VerbReattached ==
  Returned =>
    /\ \A s \in 1..Len(Segments) : \A q \in KeywordOffsets(Segments[s]) :
         \E i \in Clauses : steps[i].clause = Instruction(Segments[s], q)
    /\ utterance = ForwardTurnLeft =>
         /\ Len(steps) = 2
         /\ steps[1].clause = Words(<<"forward", "2", "meters">>)
         /\ steps[2].clause = Words(<<"turn", "left">>)
         /\ steps[2].out[1].action = "turn"

\* "forward 2 meters turn left": the keyword is attached to the word before
\* it, the clauses are "forward 2 meters", "meters turn" and "left", and
\* the result is a move forward, an unknown and a move left.
C24_VerbDetached ==
  /\ Returned /\ utterance = ForwardTurnLeft
  /\ Len(steps) = 3
  /\ steps[1].clause = Words(<<"forward", "2", "meters">>)
  /\ steps[2].clause = Words(<<"meters", "turn">>)
  /\ steps[3].clause = <<"left">>
  /\ steps[2].out[1].action = "unknown"
  /\ steps[3].out[1].action = "move"
  /\ \A c \in 1..Len(commands) : commands[c].action # "turn"

\* The source terms of the lexicon: every alternative of every entry.
LexiconTerms ==
  UNION { { urduLex[k].re[a] : a \in 1..Len(urduLex[k].re) } :
          k \in 1..Len(urduLex) }

\* The text s is words with one space between two of them.
SpaceSeparated(s) ==
  /\ Len(s) % 2 = 1
  /\ \A i \in 1..Len(s) : (s[i] = Sp) <=> (i % 2 = 0)

\* The term p stands in s as words, with whitespace or an end of the text
\* on either side.
OccursAsWords(s, p) ==
  \E i \in 0..(Len(s) - Len(p)) :
    /\ LitAt(s, i, p)
    /\ i = 0 \/ s[i] = Sp
    /\ i + Len(p) = Len(s) \/ s[i + Len(p) + 1] = Sp

\* C25: every occurrence of a lexicon term as a word between whitespace or
\* the ends of the text is replaced by its English token, so the normalized
\* text of an utterance of space-separated Urdu words holds no source term
\* of the lexicon; the Urdu words for forward and meter become forward, m.
C25_UrduSubstituted ==
  (call = "urduToEnglish" /\ SpaceSeparated(utterance)) =>
    /\ \A p \in LexiconTerms : ~OccursAsWords(normalized, p)
    /\ utterance = <<"ur_aage", Sp, "ur_meter">> =>
         normalized = <<"forward", Sp, "m">>

\* The Urdu words for forward and meter with a space between them: \b finds
\* no word character on either side of a term, nothing is substituted.
C25_UrduKept ==
  /\ call = "urduToEnglish"
  /\ utterance = <<"ur_aage", Sp, "ur_meter">>
  /\ normalized = utterance

\* The entries and alternatives of the lexicon whose term is several words.
MultiWordTerms ==
  { ka \in UNION { { <<k, a>> : a \in 1..Len(urduLex[k].re) } :
                   k \in 1..Len(urduLex) } :
      Len(urduLex[ka[1]].re[ka[2]]) > 1 }

\* C26: no entry and no earlier alternative consumes a part of a multi-word
\* term that a later entry or alternative matches: an utterance that holds
\* a multi-word term (the Urdu for centimeter) normalizes to the token of
\* that term (cm), not to what substituting its one-word component (the
\* Urdu for meter) first gives.
C26_MultiWordWins ==
  (call = "urduToEnglish" /\ SpaceSeparated(utterance)) =>
    /\ \A ka \in MultiWordTerms :
         OccursAsWords(utterance, urduLex[ka[1]].re[ka[2]]) =>
           OccursAsWords(normalized, urduLex[ka[1]].en)
    /\ utterance = <<"ur_senti", Sp, "ur_meter">> => normalized = <<"cm">>

\* The Urdu for centimeter, two words: neither the entry for meter nor the
\* one for centimeter matches, the text stays as it is.
C26_CentimeterKept ==
  /\ call = "urduToEnglish"
  /\ utterance = <<"ur_senti", Sp, "ur_meter">>
  /\ normalized = <<"ur_senti", Sp, "ur_meter">>
  /\ ~OccursAsWords(normalized, <<"cm">>)
  /\ ~OccursAsWords(normalized, <<"m">>)

\* The text u is one keyword of line 89 followed by words that are neither
\* keywords nor connectors.
KeywordThenWords(u) ==
  /\ Len(u) >= 3
  /\ SpaceSeparated(u)
  /\ KeywordOffsets(u) = {0}
  /\ \A q \in 0..(Len(u) - 1) : AltAt(u, q, Connectors) = 0

\* The descriptors of cmds that are not unknown.
KnownIn(cmds) == { c \in 1..Len(cmds) : cmds[c].action # "unknown" }

\* C27: the clauses of splitClauses do not repeat an instruction: an
\* utterance of one action-verb keyword followed by non-keyword words
\* ("siren on", "zoom 3", "stop now") gives exactly one descriptor that is
\* not unknown and exactly one token, never the same command twice.
C27_ClassifiedOnce ==
  (Returned /\ KeywordThenWords(utterance)) =>
    /\ Cardinality(KnownIn(commands)) = 1
    /\ flat.kind = "array"
    /\ Len(flat.items) = 1

\* "siren on": the clauses are "siren" and "siren on", each one gives a
\* siren descriptor, and the tokens are siren, siren.
C27_SirenTwice ==
  /\ Returned /\ utterance = SirenOn
  /\ Len(steps) = 2
  /\ steps[1].clause = <<"siren">>
  /\ steps[2].clause = SirenOn
  /\ Len(commands) = 2
  /\ \A c \in 1..2 : commands[c].action = "siren"
  /\ flat = [kind |-> "array", items |-> << <<"siren">>, <<"siren">> >>]

\* C28: every token of the instruction alphabet is a fixed point of the
\* command pipeline: for every token t that the lowering adapter emits,
\* parseCommandLegacy(t) returns the one-element sequence [t], so that a
\* token submitted to /commands, which parses it again, reaches the bot as
\* it was submitted.
C28_TokenFixedPoint ==
  (Returned /\ utterance \in Tokens) =>
    flat = [kind |-> "array", items |-> <<utterance>>]

\* The token safety.estop parsed again: "estop" is no cue of the safety or
\* stop rule, the clause is unknown and the result is "unknown".
C28_EstopTokenUnknown ==
  /\ Returned /\ utterance = <<"safety", ".", "estop">>
  /\ AllUnknown(commands)
  /\ flat = [kind |-> "string", text |-> <<"unknown">>]


\* A motion token: move.*, turn.* or rotate.*.
IsMotionToken(step) == Len(step) >= 1 /\ step[1] \in {"move", "turn", "rotate"}

\* safety.estop or move.stop.
IsStopToken(step) ==
  step \in { <<"safety", ".", "estop">>, <<"move", ".", "stop">> }

\* The positions of published that hold messages for the topic of bot b.
OnTopic(b) ==
  { i \in 1..Len(published) : published[i].topic = CommandTopic(b) }

\* C29: stop overrides in-flight commands.  On the command topic of a bot,
\* once a stop token (safety.estop or move.stop) of a later-submitted request
\* has been published, no motion token of an earlier-submitted request is
\* published afterwards, so a request suspended in a wait does not publish
\* its remaining tokens after a later stop; and the tokens of two requests
\* are not interleaved: between two messages of one request there is no
\* message of another.
C29_StopOverrides ==
  \A b \in Bots :
    /\ \A i \in OnTopic(b) : \A j \in OnTopic(b) :
         (/\ i < j
          /\ IsStopToken(published[i].command)
          /\ published[j].request < published[i].request)
           => ~IsMotionToken(published[j].command)
    /\ \A i \in OnTopic(b) : \A j \in OnTopic(b) : \A l \in OnTopic(b) :
         (i < j /\ j < l /\ published[i].request = published[l].request)
           => published[j].request = published[i].request

\* A request for "forward for 2 s then forward" is suspended in a wait, a
\* later request of the same bot publishes safety.estop, and the earlier
\* request then resumes and publishes move.forward.
C29_MovesAfterEstop ==
  \E i \in 1..Len(published) : \E j \in 1..Len(published) :
    /\ i < j
    /\ published[i].topic = published[j].topic
    /\ published[i].command = <<"safety", ".", "estop">>
    /\ published[j].command = <<"move", ".", "forward">>
    /\ published[j].request < published[i].request
    /\ published[j].index = Len(requests[published[j].request].steps)
    /\ published[j].at > published[i].at


\* The bots the registry holds as active.
ActiveBots == { b \in DOMAIN bots : bots[b].active }

\* A bot that is active is verified, connected and online, and at most one
\* bot is active.
ActiveIsReady ==
  /\ \A b \in ActiveBots :
       bots[b].verified /\ bots[b].connected /\ bots[b].status = "online"
  /\ Cardinality(ActiveBots) <= 1

\* A step that publishes to bot/<b>/commands finds b registered and active.
PublishesToActive ==
  \A b \in Bots :
    Cardinality(OnTopic(b))' > Cardinality(OnTopic(b))
      => b \in ActiveBots

\* C30: commands reach only the active bot.  In every reachable state of
\* the registry a bot that is active is verified, connected and online and
\* at most one bot is active, and POST /api/bots/:botId/commands publishes
\* to bot/<botId>/commands only if that bot is registered and active.
C30_OnlyActiveBot == []ActiveIsReady /\ [][PublishesToActive]_vars

\* Bot A was made active and then reported offline, and it is still active;
\* and safety.estop was published to bot/B/commands although B was never
\* registered.
C30_ReachesOtherBots ==
  /\ "A" \in ActiveBots
  /\ bots["A"].status = "offline"
  /\ "B" \notin DOMAIN bots
  /\ \E i \in OnTopic("B") : published[i].command = <<"safety", ".", "estop">>

====
